---- MODULE Spec2Model ----
(***************************************************************************)
(* Price tracker: the monitoring scheduler (services/scheduler.ts), the    *)
(* product routes that create and update monitors (routes/stores.ts) and   *)
(* the notification dispatcher (services/notifications.ts).                *)
(*                                                                         *)
(* The database tables are sets of rows with serial ids.  Every await of a *)
(* handler that touches the database is one step, so handlers interleave   *)
(* as they do on the node event loop.  Prices are whole numbers of the     *)
(* smallest unit the store keeps (decimal(10,2)); NULL is SQL null.        *)
(***************************************************************************)
EXTENDS Integers, FiniteSets, Sequences, TLC

\* ---- bounds ----
MaxPrice == 2
MaxChecks == 2
MaxSeqChecks == 3
MaxDispatchChecks == 1
MaxInFlight == 2
MaxDispatches == 1
MaxUpdates == 1
MaxPosts == 1
MaxDeletes == 1
MaxOverlapDispatches == 2
MaxScrapeChecks == 1
MaxCreates == 3
MaxCleanups == 2
MaxElapses == 2
MaxRuns == 2
MaxJobRuns == 3
MaxQueryLen == 4
MaxCalls == 2
MaxImmediate == 1
MaxCallers == 3
MaxCloses == 2
MaxBacklog == 11
MaxVariedBacklog == 2
MaxDbErrors == 2
MaxBacklogDispatches == 6

\* ---- program constants ----
HistoryScanLimit == 10
RetentionDays == 90
NotificationRetentionDays == 30
PendingBatchLimit == 10

NULL == -1
ProductIds == {1}
\* two monitors, for a tick that checks more than one
TickProductIds == {1, 2}
\* a scrape yields NULL or a number; the JSON-LD strategy accepts "0.00"
Prices == 0..MaxPrice
\* z.number().positive()
TargetPrices == 1..MaxPrice
NotificationTypes == {"price_drop", "target_reached", "back_in_stock"}
DeliveryOutcomes == {"delivered", "failed", "unconfigured", "threw"}

VARIABLES products, priceHistory, notifications, serial, now, checks, dispatches,
          requests, housekeeping, jobs, calls, browser

vars == <<products, priceHistory, notifications, serial, now, checks, dispatches,
          requests, housekeeping, jobs, calls, browser>>

\* ---- helpers ----
Max(S) == CHOOSE x \in S : \A y \in S : y <= x

\* JavaScript truthiness of a nullable decimal string read from the database:
\* any non-null value ("0.00" included) is a non-empty string
TruthyString(p) == p # NULL
\* JavaScript truthiness of a nullable number: null and 0 are falsy
TruthyNumber(p) == p # NULL /\ p # 0

Running(c) == c.pc \notin {"done", "failed", "threw"}
InFlight == {i \in DOMAIN checks : Running(checks[i])}
Dispatching == {d \in DOMAIN dispatches : dispatches[d].pc \notin {"done", "aborted"}}
Responding == {r \in DOMAIN requests : requests[r].pc # "responded"}
\* handlers that have started and not yet returned; a run of a job counts
\* while it awaits its first statement (the select of the price check or of the
\* dispatcher, the delete of the cleanup), then by its checks or its dispatch
Handlers ==
    Cardinality(InFlight) + Cardinality(Dispatching) + Cardinality(Responding)
       + Cardinality({run \in jobs.runs : run.pc \in {"select", "delete"}})


\* availability of the latest observation of a monitor: "none" before the first
LatestAvailability(pid) ==
    LET rows == {h \in priceHistory : h.productId = pid}
    IN  IF rows = {} THEN "none"
        ELSE LET last == CHOOSE h \in rows : \A g \in rows :
                             g.scrapedAt < h.scrapedAt
                             \/ (g.scrapedAt = h.scrapedAt /\ g.id <= h.id)
             IN  IF last.isAvailable THEN "yes" ELSE "no"

\* ---- database writes ----
\* Every inserted row is stamped with new Date(), which the code evaluates when
\* it issues the insert: scrapedAt and createdAt are arguments of values(), read
\* before the await.  The handler reads the clock in the step that ends its
\* previous await and hands the stamp to the insert, which lands in a later
\* step.  Consecutive stamps of rows differ (the clock advances with every such
\* read), so stamps are distinct; rows of overlapping handlers may land in an
\* order other than that of their stamps.
InsertPriceHistory(pid, price, isAvailable, scrapedAt) ==
    /\ priceHistory' = priceHistory \cup
          {[id |-> serial.priceHistory + 1, productId |-> pid, price |-> price,
            isAvailable |-> isAvailable, scrapedAt |-> scrapedAt]}
    /\ serial' = [serial EXCEPT !.priceHistory = @ + 1]

\* the insert of createNotification: one row, sent = false
InsertNotification(pid, type, message, by, createdAt) ==
    /\ notifications' = notifications \cup
          {[id |-> serial.notifications + 1, productId |-> pid, type |-> type,
            message |-> message, sent |-> FALSE, sentAt |-> NULL,
            createdAt |-> createdAt, attempts |-> 0, outcome |-> "none",
            by |-> by,
            targetChanged |-> IF by \in DOMAIN checks
                              THEN checks[by].targetChanged ELSE FALSE]}
    /\ serial' = [serial EXCEPT !.notifications = @ + 1]

\* createNotification, scheduler.ts:182-200: the insert inside a try block; an
\* insert that fails (dbOk false, or the monitor row is gone and the foreign key
\* rejects the row) is caught and logged, no row is written and the caller
\* goes on
createNotification(pid, type, message, by, createdAt, dbOk) ==
    IF dbOk /\ pid \in DOMAIN products
    THEN InsertNotification(pid, type, message, by, createdAt)
    ELSE UNCHANGED <<notifications, serial>>

\* ---- services/url-parser.ts ----
\* The characters of a query string: parameter names, a value, the separators
\* and the percent-encoded separators
QueryChars == {"itm", "ref", "dp", "1", "&", "=", "%26"}
Hosts == {"example.com", "amazon.com", "www.ebay.com"}

RECURSIVE SeqsUpTo(_, _)
SeqsUpTo(S, n) ==
    IF n = 0 THEN {<< >>}
    ELSE LET shorter == SeqsUpTo(S, n - 1)
         IN  shorter \cup {Append(q, c) : q \in shorter, c \in S}

\* A product URL: whether new URL() accepts it, its host, its path (the page it
\* names, and whether the path is /itm/<digits>), its query string and whether
\* it has a fragment
Urls ==
    [valid : BOOLEAN, host : Hosts, path : {1, 2}, itemPath : BOOLEAN,
     query : SeqsUpTo(QueryChars, MaxQueryLen), fragment : BOOLEAN]

\* percent-decoding and percent-encoding of one character
PercentDecode(c) == IF c = "%26" THEN "&" ELSE IF c = "%3D" THEN "=" ELSE c
PercentEncode(c) == IF c = "&" THEN "%26" ELSE IF c = "=" THEN "%3D" ELSE c
Decoded(s) == [i \in 1..Len(s) |-> PercentDecode(s[i])]
Encoded(s) == [i \in 1..Len(s) |-> PercentEncode(s[i])]

RECURSIVE SplitOn(_, _)
SplitOn(s, sep) ==
    IF s = << >> THEN << << >> >>
    ELSE LET rest == SplitOn(Tail(s), sep)
         IN  IF Head(s) = sep THEN << << >> >> \o rest
             ELSE << <<Head(s)>> \o Head(rest) >> \o Tail(rest)

\* one name=value piece of a query string, split at its first "="
NameValue(piece) ==
    IF \E i \in 1..Len(piece) : piece[i] = "="
    THEN LET k == CHOOSE i \in 1..Len(piece) :
                    /\ piece[i] = "="
                    /\ \A j \in 1..(i - 1) : piece[j] # "="
         IN  [name |-> Decoded(SubSeq(piece, 1, k - 1)),
              value |-> Decoded(SubSeq(piece, k + 1, Len(piece)))]
    ELSE [name |-> Decoded(piece), value |-> << >>]

\* urlObj.searchParams: the list of name-value pairs of a query string
RECURSIVE PairsOf(_)
PairsOf(pieces) ==
    IF pieces = << >> THEN << >>
    ELSE IF Head(pieces) = << >> THEN PairsOf(Tail(pieces))
         ELSE <<NameValue(Head(pieces))>> \o PairsOf(Tail(pieces))
SearchParams(query) == PairsOf(SplitOn(query, "&"))

\* URLSearchParams.toString()
RECURSIVE SerializeParams(_)
SerializeParams(params) ==
    IF params = << >> THEN << >>
    ELSE Encoded(Head(params).name) \o <<"=">> \o Encoded(Head(params).value)
         \o (IF Tail(params) = << >> THEN << >>
             ELSE <<"&">> \o SerializeParams(Tail(params)))

\* searchParams.get(name): the first value, << >> for null
RECURSIVE GetParam(_, _)
GetParam(params, name) ==
    IF params = << >> THEN << >>
    ELSE IF Head(params).name = name THEN Head(params).value
         ELSE GetParam(Tail(params), name)

\* URLSearchParams.set(name, value): the first pair of that name takes the
\* value and the others go; a new name is appended
RECURSIVE WithoutParam(_, _)
WithoutParam(params, name) ==
    IF params = << >> THEN << >>
    ELSE IF Head(params).name = name THEN WithoutParam(Tail(params), name)
         ELSE <<Head(params)>> \o WithoutParam(Tail(params), name)
RECURSIVE SetParam(_, _, _)
SetParam(params, name, value) ==
    IF params = << >> THEN <<[name |-> name, value |-> value]>>
    ELSE IF Head(params).name = name
         THEN <<[name |-> name, value |-> value]>> \o WithoutParam(Tail(params), name)
         ELSE <<Head(params)>> \o SetParam(Tail(params), name, value)

\* cleanURL, lines 55-60 and 67: the names among the query characters
trackingParams == {<<"ref">>}
allowedAmazonParams == {<<"dp">>}

\* cleanURL, line 63: hostname.replace('www.', '')
HostKey(host) == IF host = "www.ebay.com" THEN "ebay.com" ELSE host

\* cleanURL, lines 67-74: the allowed parameters are set on a new list
RECURSIVE AmazonParams(_, _)
AmazonParams(params, kept) ==
    IF params = << >> THEN kept
    ELSE AmazonParams(Tail(params),
            IF Head(params).name \in allowedAmazonParams
            THEN SetParam(kept, Head(params).name, Head(params).value)
            ELSE kept)

\* cleanURL, line 80: the itm parameter, or the digits of an /itm/ path
ItemId(url) ==
    LET itm == GetParam(SearchParams(url.query), <<"itm">>)
    IN  IF itm # << >> THEN itm
        ELSE IF url.itemPath THEN <<"1">> ELSE << >>

\* cleanURL, lines 81-85: urlObj.search = `itm=${itemId}`, the decoded value
\* as it is
EbaySearch(url) ==
    IF ItemId(url) # << >> THEN <<"itm", "=">> \o ItemId(url) ELSE << >>

\* cleanURL, lines 90-92: searchParams.delete of every tracking parameter
RECURSIVE WithoutTracking(_)
WithoutTracking(params) ==
    IF params = << >> THEN << >>
    ELSE IF Head(params).name \in trackingParams THEN WithoutTracking(Tail(params))
         ELSE <<Head(params)>> \o WithoutTracking(Tail(params))

\* cleanURL: the query is rewritten by host, the fragment is removed; a string
\* new URL() rejects is returned as it is
cleanURL(url) ==
    IF ~url.valid THEN url
    ELSE [url EXCEPT
            !.query =
                CASE HostKey(url.host) = "amazon.com" ->
                        SerializeParams(AmazonParams(SearchParams(url.query), << >>))
                  [] HostKey(url.host) = "ebay.com" -> EbaySearch(url)
                  [] OTHER -> SerializeParams(WithoutTracking(SearchParams(url.query))),
            !.fragment = FALSE]

\* the URL of the monitor with a given id, when one request creates each monitor
ProductUrl(pid) ==
    [valid |-> TRUE, host |-> "example.com", path |-> pid, itemPath |-> FALSE,
     query |-> << >>, fragment |-> FALSE]

\* the URLs of the create requests: two pages, with and without a tracking
\* parameter
PostUrls ==
    {[ProductUrl(pid) EXCEPT !.query = q] : pid \in {1, 2}, q \in {<< >>, <<"ref", "=", "1">>}}

\* parseURL, lines 20-44: new URL() throws on a string it rejects and the catch
\* block throws Error(`Invalid URL: ${url}`); otherwise the parse result, in
\* which isSupported is always true
parseURL(url) ==
    IF ~url.valid
    THEN [throws |-> "Invalid URL", url |-> url]
    ELSE [url |-> url, cleanUrl |-> cleanURL(url), domain |-> HostKey(url.host),
          isSupported |-> TRUE]

\* ---- calls of scrapePrice ----
\* a call of scrapePrice is named by the handler that awaits it: a price check
\* or a create request
CheckScrape(i) == <<"check", i>>
PostScrape(r) == <<"post", r>>
\* a call of scrapeWithPuppeteer taken by itself
DirectScrape(k) == <<"call", k>>
\* a call of scrapePrice with no handler around it
CalledScrape(k) == <<"scrape", k>>

\* the rendered attempt of the call has the browser, or the launch was
\* rejected; what is left of scrapePrice (the page, the static attempt) reads
\* and writes nothing that other handlers share
HasBrowser(key) ==
    /\ key \in DOMAIN browser.callers
    /\ browser.callers[key].pc \in {"newPage", "threw"}

\* scrapePrice returns: the call is over
EndScrape(key) ==
    browser' = [browser EXCEPT !.callers =
                   [k \in DOMAIN browser.callers \ {key} |-> browser.callers[k]]]

\* ---- routes/stores.ts ----
\* a request of the product routes; the fields a route does not use keep
\* these values
NoUrl ==
    [valid |-> FALSE, host |-> "example.com", path |-> 0, itemPath |-> FALSE,
     query |-> << >>, fragment |-> FALSE]
NoRequest ==
    [kind |-> "none", pc |-> "responded", status |-> 0, url |-> NoUrl,
     cleanUrl |-> NoUrl, targetPrice |-> NULL, isActive |-> "absent",
     scraped |-> NULL, pid |-> NULL, stamp |-> NULL,
     type |-> "none", immediate |-> FALSE, row |-> NULL]

RequestsOf(kind) == {r \in DOMAIN requests : requests[r].kind = kind}

\* POST /api/products, lines 137-153: the body is validated (z.string().url()
\* lets no string through that new URL() rejects) and parseURL awaits its
\* select of the store
PostProduct(url, targetPrice, limit) ==
    /\ url.valid
    /\ Cardinality(RequestsOf("POST")) < limit
    /\ requests' = Append(requests,
          [NoRequest EXCEPT !.kind = "POST", !.pc = "select", !.url = url,
                            !.cleanUrl = parseURL(url).cleanUrl,
                            !.targetPrice = targetPrice])
    /\ UNCHANGED <<products, priceHistory, notifications, serial, now, checks, dispatches, housekeeping, jobs, calls, browser>>

\* the request is answered: of an answered request the model keeps the route,
\* the URL, the id of the monitor and the status
Answered(request, status) ==
    [NoRequest EXCEPT !.kind = request.kind, !.status = status, !.url = request.url,
                      !.cleanUrl = request.cleanUrl, !.pid = request.pid]

\* lines 155-169: the select of a monitor with the cleaned URL; 409 when there
\* is one, otherwise scrapePrice is called
SelectExisting(r) ==
    /\ requests[r].kind = "POST"
    /\ requests[r].pc = "select"
    /\ requests' = [requests EXCEPT ![r] =
          IF \E p \in DOMAIN products : products[p].url = requests[r].cleanUrl
          THEN Answered(@, 409)
          ELSE [@ EXCEPT !.pc = "scrape"]]
    /\ UNCHANGED <<products, priceHistory, notifications, serial, now, checks, dispatches, housekeeping, jobs, calls, browser>>

\* lines 172-205: scrapePrice returns (a scrape that throws is caught and
\* leaves no price); the insert of the monitor is issued
ScrapeInitialPrice(r, scraped) ==
    /\ requests[r].kind = "POST"
    /\ requests[r].pc = "scrape"
    /\ HasBrowser(PostScrape(r))
    /\ EndScrape(PostScrape(r))
    /\ requests' = [requests EXCEPT ![r].pc = "insert", ![r].scraped = scraped]
    /\ UNCHANGED <<products, priceHistory, notifications, serial, now, checks, dispatches, housekeeping, jobs, calls>>

\* the insert without the unique constraint on products.url
UrlTaken_NoConstraint(cleanUrl) == FALSE

\* db/schema.ts: products.url is unique, an insert of a URL that a row has fails
UrlTaken(cleanUrl) == \E p \in DOMAIN products : products[p].url = cleanUrl

\* if (scrapeResult.price) initialPrice = ..., lines 178-180
InitialPrice(scraped) == IF TruthyNumber(scraped) THEN scraped ELSE NULL

\* lines 192-216: the insert of the monitor lands; an insert that fails ends in
\* the catch block with 500.  With an initial price the insert of the first
\* observation is issued, stamped now; without one the request is answered 201
InsertProduct(r) ==
    /\ requests[r].kind = "POST"
    /\ requests[r].pc = "insert"
    /\ IF UrlTaken(requests[r].cleanUrl)
       THEN /\ requests' = [requests EXCEPT ![r] = Answered(@, 500)]
            /\ UNCHANGED <<products, serial, now>>
       ELSE LET pid == serial.products + 1
                initialPrice == InitialPrice(requests[r].scraped)
            IN  /\ products' = products @@ (pid :>
                      [currentPrice |-> initialPrice,
                       targetPrice |-> requests[r].targetPrice,
                       isActive |-> TRUE, rev |-> 0, url |-> requests[r].cleanUrl])
                /\ serial' = [serial EXCEPT !.products = pid]
                /\ IF initialPrice # NULL
                   THEN /\ requests' = [requests EXCEPT ![r].pc = "history", ![r].pid = pid,
                                                        ![r].stamp = now]
                        /\ now' = now + 1
                   ELSE /\ requests' = [requests EXCEPT ![r] =
                                           Answered([@ EXCEPT !.pid = pid], 201)]
                        /\ UNCHANGED now
    /\ UNCHANGED <<priceHistory, notifications, checks, dispatches, housekeeping, jobs, calls, browser>>

\* lines 208-222: the insert of the first observation lands (always recorded as
\* available), 201; when the monitor was deleted meanwhile the foreign key
\* rejects the row and the catch block answers 500
InsertInitialObservation(r) ==
    /\ requests[r].kind = "POST"
    /\ requests[r].pc = "history"
    /\ IF requests[r].pid \in DOMAIN products
       THEN /\ InsertPriceHistory(requests[r].pid, InitialPrice(requests[r].scraped),
                                  TRUE, requests[r].stamp)
            /\ requests' = [requests EXCEPT ![r] = Answered(@, 201)]
       ELSE /\ requests' = [requests EXCEPT ![r] = Answered(@, 500)]
            /\ UNCHANGED <<priceHistory, serial>>
    /\ UNCHANGED <<products, notifications, now, checks, dispatches, housekeeping, jobs, calls, browser>>

\* PUT /api/products/:id, lines 254-266: the select of the monitor; 404 when
\* there is none, otherwise the update is issued
PutProduct(pid, targetPrice, isActive) ==
    /\ Cardinality(RequestsOf("PUT")) < MaxUpdates
    /\ requests' = Append(requests,
          IF pid \in DOMAIN products
          THEN [NoRequest EXCEPT !.kind = "PUT", !.pid = pid, !.pc = "update",
                                 !.targetPrice = targetPrice, !.isActive = isActive]
          ELSE Answered([NoRequest EXCEPT !.kind = "PUT", !.pid = pid], 404))
    /\ UNCHANGED <<products, priceHistory, notifications, serial, now, checks, dispatches, housekeeping, jobs, calls, browser>>

\* the columns the update sets, lines 270-276: body.targetPrice?.toString() is
\* undefined for both a missing and a null targetPrice, and drizzle skips
\* undefined columns, so only a positive number changes the target; isActive
\* is set when present
UpdatedRow(row, targetPrice, isActive) ==
    [row EXCEPT !.targetPrice = IF targetPrice \in TargetPrices THEN targetPrice ELSE @,
                !.isActive = IF isActive \in {"true", "false"} THEN isActive = "true" ELSE @]

\* lines 268-285: the update lands and the request is answered 200; it changes
\* no row when the monitor was deleted after the select
UpdateProduct(r) ==
    /\ requests[r].kind = "PUT"
    /\ requests[r].pc = "update"
    /\ requests' = [requests EXCEPT ![r] = Answered(@, 200)]
    /\ LET pid == requests[r].pid
           changed == /\ pid \in DOMAIN products
                      /\ UpdatedRow(products[pid], requests[r].targetPrice,
                                    requests[r].isActive).targetPrice
                            # products[pid].targetPrice
       IN  /\ products' = [p \in DOMAIN products |->
                 IF p = pid
                 THEN UpdatedRow(products[p], requests[r].targetPrice, requests[r].isActive)
                 ELSE products[p]]
           /\ notifications' =
                 {IF n.productId = pid /\ changed
                  THEN [n EXCEPT !.targetChanged = TRUE] ELSE n : n \in notifications}
           /\ checks' = [i \in DOMAIN checks |->
                 IF checks[i].pid = pid /\ changed /\ Running(checks[i])
                 THEN [checks[i] EXCEPT !.targetChanged = TRUE] ELSE checks[i]]
    /\ UNCHANGED <<priceHistory, serial, now, dispatches, housekeeping, jobs, calls, browser>>

\* DELETE /api/products/:id, lines 297-324: the select of the monitor; 404 when
\* there is none, otherwise the delete is issued
DeleteRequest(pid) ==
    /\ Cardinality(RequestsOf("DELETE")) < MaxDeletes
    /\ requests' = Append(requests,
          IF pid \in DOMAIN products
          THEN [NoRequest EXCEPT !.kind = "DELETE", !.pid = pid, !.pc = "delete"]
          ELSE Answered([NoRequest EXCEPT !.kind = "DELETE", !.pid = pid], 404))
    /\ UNCHANGED <<products, priceHistory, notifications, serial, now, checks, dispatches, housekeeping, jobs, calls, browser>>

\* lines 326-333: the delete lands and the request is answered 200; the rows
\* of price_history and notifications that reference the monitor go with it
\* (db/schema.ts:23, 33: onDelete cascade)
DeleteProduct(r) ==
    /\ requests[r].kind = "DELETE"
    /\ requests[r].pc = "delete"
    /\ requests' = [requests EXCEPT ![r] = Answered(@, 200)]
    /\ products' = [p \in DOMAIN products \ {requests[r].pid} |-> products[p]]
    /\ priceHistory' = {h \in priceHistory : h.productId # requests[r].pid}
    /\ notifications' = {n \in notifications : n.productId # requests[r].pid}
    /\ UNCHANGED <<serial, now, checks, dispatches, housekeeping, jobs, calls, browser>>

\* ---- services/scraper.ts ----
\* A product page, as far as the extraction reads it:
\*   offerPrice    the price of the JSON-LD Product offer: absent, a JSON number
\*                 or a JSON string of digits
\*   availability  the offer's availability string
\*   metaPrice     content of the first price meta tag, NULL when there is none
\*   selectorPrice number in the text matched by the price selector, NULL for none
\*   addToCart     an enabled add-to-cart / buy-now button
\*   soldOutText   an unavailability phrase in the product area
\* renderedFetch / staticFetch say whether the fetch of that mode succeeds.
OfferPrices ==
    {[json |-> "absent", v |-> 0]} \cup [json : {"number", "string"}, v : Prices]
Availabilities ==
    {"absent", "https://schema.org/InStock", "https://schema.org/OutOfStock",
     "https://schema.org/PreOrder"}
Pages ==
    [offerPrice : OfferPrices, availability : Availabilities,
     metaPrice : Prices \cup {NULL}, selectorPrice : Prices \cup {NULL},
     addToCart : BOOLEAN, soldOutText : BOOLEAN,
     renderedFetch : {"ok", "throws"}, staticFetch : {"ok", "throws"}]

\* JavaScript truthiness of a JSON value: the number 0 is falsy, a non-empty
\* string ("0" included) is truthy
TruthyJson(raw) == raw.json = "string" \/ (raw.json = "number" /\ raw.v # 0)

\* parseFloat of a JSON number or of a string of digits
ParseFloat(raw) == raw.v

\* findProductInJsonLd: the first offer with a truthy price gives
\* {price, currency, name}; the object returned has no offers property
findProductInJsonLd(page) ==
    IF TruthyJson(page.offerPrice)
    THEN [found |-> TRUE, price |-> page.offerPrice, hasOffers |-> FALSE]
    ELSE [found |-> FALSE, price |-> page.offerPrice, hasOffers |-> FALSE]

\* JSON-LD strategy of scrapeWithCheerio: parseFloat(product.price), unchecked
JsonLdPriceStatic(page) ==
    LET product == findProductInJsonLd(page)
    IN  IF product.found /\ TruthyJson(product.price)
        THEN ParseFloat(product.price) ELSE NULL

\* JSON-LD strategy inside page.evaluate: findProductInJsonLd is not defined in
\* the page, the call throws a ReferenceError, the catch moves to the next script
JsonLdPriceRendered(page) == NULL

\* meta tags: the content is parsed and accepted when it is a number > 0
MetaPrice(page) ==
    IF page.metaPrice # NULL /\ page.metaPrice > 0 THEN page.metaPrice ELSE NULL

\* selector text: the first match that is a number > 0 and < 1,000,000
SelectorPrice(page) ==
    IF page.selectorPrice # NULL /\ page.selectorPrice > 0 /\ page.selectorPrice < 1000000
    THEN page.selectorPrice ELSE NULL

\* the ordered strategies: each is tried only while price === null
ExtractPrice(jsonLd, page) ==
    IF jsonLd # NULL THEN [price |-> jsonLd, strategy |-> "jsonld"]
    ELSE IF MetaPrice(page) # NULL THEN [price |-> MetaPrice(page), strategy |-> "meta"]
    ELSE IF SelectorPrice(page) # NULL
         THEN [price |-> SelectorPrice(page), strategy |-> "selector"]
    ELSE [price |-> NULL, strategy |-> "none"]

\* availability.toLowerCase() includes instock / outofstock
AvailabilityToken(availability) ==
    IF availability = "https://schema.org/InStock" THEN "yes"
    ELSE IF availability = "https://schema.org/OutOfStock" THEN "no"
    ELSE "none"

\* add-to-cart button, then the keyword scan of the product area
PageAvailability(page) == page.addToCart \/ ~page.soldOutText

\* the classifier, given what the structured data said ("yes", "no", "none")
Classify(fromJsonLd, page) ==
    IF fromJsonLd = "yes" THEN TRUE
    ELSE IF fromJsonLd = "no" THEN FALSE
    ELSE PageAvailability(page)

\* scrapeWithPuppeteer: findProductInBrowser returns the Product node itself,
\* so its offers are read
scrapeWithPuppeteer(page) ==
    LET r == ExtractPrice(JsonLdPriceRendered(page), page)
    IN  [price |-> r.price, strategy |-> r.strategy,
         isAvailable |-> Classify(AvailabilityToken(page.availability), page)]

\* scrapeWithCheerio, lines 531-552: product.offers of the object returned by
\* findProductInJsonLd
StaticAvailability(page) ==
    LET product == findProductInJsonLd(page)
    IN  IF product.found /\ product.hasOffers
        THEN AvailabilityToken(page.availability) ELSE "none"

scrapeWithCheerio(page) ==
    LET r == ExtractPrice(JsonLdPriceStatic(page), page)
    IN  [price |-> r.price, strategy |-> r.strategy,
         isAvailable |-> Classify(StaticAvailability(page), page)]

UnableToExtract == "Unable to extract price with any method"

\* the result of one method: "throws" when its fetch fails
Attempt(method, page) ==
    IF method = "rendered"
    THEN IF page.renderedFetch = "ok" THEN scrapeWithPuppeteer(page)
         ELSE [price |-> NULL, strategy |-> "throws", isAvailable |-> FALSE]
    ELSE IF page.staticFetch = "ok" THEN scrapeWithCheerio(page)
         ELSE [price |-> NULL, strategy |-> "throws", isAvailable |-> FALSE]

\* the static method first
Methods_StaticFirst == <<"static", "rendered">>

\* scrapePrice, lines 57-60: the methods in their order
Methods == <<"rendered", "static">>

\* scrapePrice, lines 62-77: the first method with a non-null price wins; when
\* none has one, price null with the error text
RECURSIVE TryMethods(_, _, _)
TryMethods(methods, page, tried) ==
    IF methods = << >>
    THEN [price |-> NULL, isAvailable |-> FALSE, error |-> UnableToExtract,
          strategy |-> "none", method |-> "none", attempts |-> tried]
    ELSE LET r == Attempt(Head(methods), page)
         IN  IF r.price # NULL
             THEN [price |-> r.price, isAvailable |-> r.isAvailable, error |-> "",
                   strategy |-> r.strategy, method |-> Head(methods),
                   attempts |-> Append(tried, Head(methods))]
             ELSE TryMethods(Tail(methods), page, Append(tried, Head(methods)))

\* the failure reported without the error text
scrapePrice_NoError(page) == [TryMethods(Methods, page, << >>) EXCEPT !.error = ""]

scrapePrice(page) == TryMethods(Methods, page, << >>)

\* a call of scrapeWithPuppeteer that has not started
NoCaller == [pc |-> "idle", browser |-> NULL, page |-> "none"]

\* a step of the browser handling leaves the rest as it is
BrowserStep ==
    UNCHANGED <<products, priceHistory, notifications, serial, now, checks, dispatches,
                requests, housekeeping, jobs, calls>>

\* the handler of the call awaits parseURL in scrapePrice (scraper.ts:50); a
\* direct call of the scraper has no handler
AwaitsParse(key) ==
    CASE key[1] = "check" -> key[2] \in DOMAIN checks /\ checks[key[2]].pc = "scrape"
      [] key[1] = "post"  -> key[2] \in DOMAIN requests /\ requests[key[2]].pc = "scrape"
      [] key[1] = "scrape" -> /\ key[2] \in DOMAIN calls
                              /\ calls[key[2]].fn = "scrapePrice"
                              /\ calls[key[2]].pc = "scrape"
      [] OTHER            -> TRUE

\* scrapePrice after parseURL, scrapeWithPuppeteer, getBrowser line 22: the
\* test of this.browser; a caller that finds none goes on to await
\* puppeteer.launch
GetBrowser(key) ==
    /\ key \notin DOMAIN browser.callers
    /\ AwaitsParse(key)
    /\ browser' = [browser EXCEPT !.callers = @ @@ (key :>
          IF browser.current = NULL
          THEN [NoCaller EXCEPT !.pc = "launching"]
          ELSE [NoCaller EXCEPT !.pc = "newPage", !.browser = browser.current])]
    /\ BrowserStep

\* getBrowser, lines 23-33: the launch resolves, the instance is assigned to
\* this.browser and returned; or the launch rejects
LaunchSettles(k, ok) ==
    /\ k \in DOMAIN browser.callers
    /\ browser.callers[k].pc = "launching"
    /\ browser' =
          IF ok
          THEN [browser EXCEPT !.launches = @ + 1, !.sinceClose = @ + 1,
                               !.current = browser.launches + 1,
                               !.callers[k] = [@ EXCEPT !.pc = "newPage",
                                                        !.browser = browser.launches + 1]]
          ELSE [browser EXCEPT !.callers[k] = [@ EXCEPT !.pc = "threw"]]
    /\ BrowserStep

\* scrapeWithPuppeteer, line 89: browser.newPage(), before the try
NewPage(k, ok) ==
    /\ k \in DOMAIN browser.callers
    /\ browser.callers[k].pc = "newPage"
    /\ browser' = [browser EXCEPT !.callers[k] =
          IF ok THEN [@ EXCEPT !.pc = "try", !.page = "open"]
          ELSE [@ EXCEPT !.pc = "threw"]]
    /\ BrowserStep

\* scrapeWithPuppeteer, the try block: navigation and evaluation return or
\* throw; the finally block closes the page either way
ScrapeAndClosePage(k, ok) ==
    /\ k \in DOMAIN browser.callers
    /\ browser.callers[k].pc = "try"
    /\ browser' = [browser EXCEPT !.callers[k] =
          [@ EXCEPT !.pc = IF ok THEN "returned" ELSE "threw", !.page = "closed"]]
    /\ BrowserStep

\* closeBrowser, lines 39-41: the test of this.browser and, with a browser set,
\* the call of browser.close(), which the caller awaits; nothing keeps a second
\* call from passing the test while the close of an earlier call is pending. A
\* call that finds no browser returns. sinceClose counts the launches since
\* the last call
closeBrowser ==
    /\ IF browser.current # NULL
       THEN /\ browser.closes + browser.closing < MaxCloses
            /\ browser' = [browser EXCEPT !.closing = @ + 1, !.sinceClose = 0]
       ELSE /\ browser.sinceClose # 0
            /\ browser' = [browser EXCEPT !.sinceClose = 0]
    /\ BrowserStep

\* closeBrowser, line 42: the browser.close() a call awaits has resolved and
\* this.browser is set to null, whichever instance it holds by now
BrowserClosed ==
    /\ browser.closing > 0
    /\ browser' = [browser EXCEPT !.current = NULL, !.closes = @ + 1,
                                  !.closing = @ - 1]
    /\ BrowserStep

\* the strings handed to cleanURL
CleanInputs == {url \in Urls : url.path = 1}

\* cleanURL applied to a string
CleanCall(url) ==
    /\ calls = << >>
    /\ calls' = <<[fn |-> "cleanURL", arg |-> url, result |-> cleanURL(url)]>>
    /\ UNCHANGED <<products, priceHistory, notifications, serial, now, checks, dispatches,
                   requests, housekeeping, jobs, browser>>

\* scrapePrice, line 50, on a monitor's stored URL: parseURL cleans the URL
\* that cleanURL returned when the monitor was created
Reclean ==
    /\ calls # << >>
    /\ Len(calls) < MaxCalls
    /\ calls[Len(calls)].fn = "cleanURL"
    /\ calls' = Append(calls,
          [fn |-> "cleanURL", arg |-> calls[Len(calls)].result,
           result |-> cleanURL(calls[Len(calls)].result)])
    /\ UNCHANGED <<products, priceHistory, notifications, serial, now, checks, dispatches,
                   requests, housekeeping, jobs, browser>>

\* a check or a call that has not scraped yet
NoPage ==
    [offerPrice |-> [json |-> "absent", v |-> 0], availability |-> "absent",
     metaPrice |-> NULL, selectorPrice |-> NULL, addToCart |-> FALSE,
     soldOutText |-> FALSE, renderedFetch |-> "throws", staticFetch |-> "throws"]
NoScrape ==
    [price |-> NULL, isAvailable |-> FALSE, error |-> "", strategy |-> "none",
     method |-> "none", attempts |-> << >>]

\* parseURL applied to a string
ParseCall(url) ==
    /\ calls = << >>
    /\ calls' = <<[fn |-> "parseURL", arg |-> url, result |-> parseURL(url)]>>
    /\ UNCHANGED <<products, priceHistory, notifications, serial, now, checks, dispatches,
                   requests, housekeeping, jobs, browser>>

\* the parse results handed to the body of scrapePrice: those of parseURL, and
\* those with isSupported false that the scraper's test has parseURL return
ParsedProducts == {[parseURL(url) EXCEPT !.isSupported = b] : url \in PostUrls, b \in BOOLEAN}

\* scrapePrice, lines 50-53, called by itself: parseURL returns the parse
\* result, which is logged; isSupported is not read; the rendered method is
\* called next
ScrapeCall(parsed) ==
    /\ calls = << >>
    /\ calls' = <<[fn |-> "scrapePrice", arg |-> parsed, pc |-> "scrape",
                   page |-> NoPage, result |-> NoScrape]>>
    /\ UNCHANGED <<products, priceHistory, notifications, serial, now, checks, dispatches,
                   requests, housekeeping, jobs, browser>>

\* scrapePrice, lines 56-77: the methods have run on the page that cleanUrl
\* serves and the call returns; a call whose browser launch was rejected has no
\* rendered fetch
ScrapeCallReturns(k, page) ==
    /\ k \in DOMAIN calls
    /\ calls[k].fn = "scrapePrice"
    /\ calls[k].pc = "scrape"
    /\ HasBrowser(CalledScrape(k))
    /\ browser.callers[CalledScrape(k)].pc = "threw" => page.renderedFetch = "throws"
    /\ EndScrape(CalledScrape(k))
    /\ calls' = [calls EXCEPT ![k] = [@ EXCEPT !.pc = "returned", !.page = page,
                                               !.result = scrapePrice(page)]]
    /\ UNCHANGED <<products, priceHistory, notifications, serial, now, checks, dispatches,
                   requests, housekeeping, jobs>>

\* ---- services/scheduler.ts ----
NewCheck(pid, pc) ==
    [pid |-> pid, pc |-> pc,
     currentPrice |-> NULL, targetPrice |-> NULL, rev |-> 0,
     priorAvailability |-> "none", targetChanged |-> FALSE,
     price |-> NULL, isAvailable |-> FALSE, mostRecentAt |-> NULL,
     alreadyNotified |-> FALSE, stamp |-> NULL,
     call |-> 0, tallied |-> FALSE,
     page |-> NoPage, scrape |-> NoScrape]

\* the product row a check works on, as read by the select
Snapshot(c, pid) ==
    [c EXCEPT !.currentPrice = products[pid].currentPrice,
              !.targetPrice = products[pid].targetPrice,
              !.rev = products[pid].rev,
              !.priorAvailability = LatestAvailability(pid)]

\* checkAllProductPrices, lines 85-88: the rows with isActive
ActiveProducts == {p \in DOMAIN products : products[p].isActive}

\* checkAllProductPrices, lines 92-94: one checkProductPrice per selected row,
\* each on the row as selected, started together
StartChecks ==
    LET n == Cardinality(ActiveProducts)
        rank(p) == Cardinality({q \in ActiveProducts : q <= p})
    IN  /\ checks' = [i \in 1..(serial.checks + n) |->
              IF i <= serial.checks THEN checks[i]
              ELSE LET p == CHOOSE q \in ActiveProducts : rank(q) = i - serial.checks
                   IN  Snapshot([NewCheck(p, "scrape") EXCEPT !.call = serial.checks + 1],
                                p)]
        /\ serial' = [serial EXCEPT !.checks = @ + n]

\* checkAllProductPrices called by POST /api/system/check-all-prices: the
\* select of the active monitors lands and the checks start
checkAllProductPrices(limit) ==
    /\ ActiveProducts # {}
    /\ serial.checks + Cardinality(ActiveProducts) <= limit
    /\ Handlers + Cardinality(ActiveProducts) <= MaxInFlight
    /\ StartChecks
    /\ UNCHANGED <<products, priceHistory, notifications, now, dispatches, requests, housekeeping, jobs, calls, browser>>

\* the request served without the isActive test
CheckPriceRequest_NoActiveTest(pid, limit) ==
    /\ pid \in DOMAIN products
    /\ serial.checks + 1 <= limit
    /\ Handlers + 1 <= MaxInFlight
    /\ checks' = checks @@ ((serial.checks + 1) :>
          [NewCheck(pid, "lookup") EXCEPT !.call = serial.checks + 1])
    /\ serial' = [serial EXCEPT !.checks = @ + 1]
    /\ UNCHANGED <<products, priceHistory, notifications, now, dispatches, requests, housekeeping, jobs, calls, browser>>

\* POST /api/products/:id/check-price: 404 for an unknown id, 400 for an
\* inactive monitor, otherwise checkSingleProduct is called
CheckPriceRequest(pid, limit) ==
    /\ pid \in DOMAIN products
    /\ products[pid].isActive
    /\ serial.checks + 1 <= limit
    /\ Handlers + 1 <= MaxInFlight
    /\ checks' = checks @@ ((serial.checks + 1) :>
          [NewCheck(pid, "lookup") EXCEPT !.call = serial.checks + 1])
    /\ serial' = [serial EXCEPT !.checks = @ + 1]
    /\ UNCHANGED <<products, priceHistory, notifications, now, dispatches, requests, housekeeping, jobs, calls, browser>>

\* checkSingleProduct: select the row by id, then checkProductPrice on it
checkSingleProduct(i) ==
    /\ checks[i].pc = "lookup"
    /\ checks' = [checks EXCEPT ![i] =
          IF checks[i].pid \in DOMAIN products
          THEN [Snapshot(checks[i], checks[i].pid) EXCEPT !.pc = "scrape"]
          ELSE [checks[i] EXCEPT !.pc = "failed"]]
    /\ UNCHANGED <<products, priceHistory, notifications, serial, now, dispatches, requests, housekeeping, jobs, calls, browser>>

\* the early return on a null price left out
ExtractionFailed_Never(price) == FALSE

\* scrapeResult.price === null
ExtractionFailed(price) == price = NULL

\* <= written for <
IsPriceDrop_OrEqual(currentPrice, newPrice) ==
    TruthyString(currentPrice) /\ newPrice <= currentPrice

\* currentPrice && parseFloat(newPrice) < parseFloat(currentPrice)
IsPriceDrop(currentPrice, newPrice) ==
    TruthyString(currentPrice) /\ newPrice < currentPrice

\* !currentPriceFloat || currentPriceFloat > targetPrice, where
\* currentPriceFloat = currentPrice ? parseFloat(currentPrice) : null
IsCrossingThreshold(currentPrice, targetPrice) ==
    LET currentPriceFloat == IF TruthyString(currentPrice) THEN currentPrice ELSE NULL
    IN  ~TruthyNumber(currentPriceFloat) \/ currentPriceFloat > targetPrice

\* checkTargetPriceNotification, lines 250-262: the three early returns
PassesThresholdChecks(currentPrice, targetPrice, newPrice) ==
    /\ TruthyString(targetPrice)
    /\ ~(newPrice > targetPrice)
    /\ IsCrossingThreshold(currentPrice, targetPrice)

\* the n latest rows by scrapedAt (orderBy desc, limit n)
RECURSIVE MostRecentRows(_, _)
MostRecentRows(rows, n) ==
    IF n = 0 \/ rows = {} THEN {}
    ELSE LET h == CHOOSE r \in rows : \A g \in rows :
                      g.scrapedAt < r.scrapedAt
                      \/ (g.scrapedAt = r.scrapedAt /\ g.id <= r.id)
         IN  {h} \cup MostRecentRows(rows \ {h}, n - 1)

\* the scrapedAt filter left out: the scan reads the whole history
RecentPriceHistory_NoSince(pid, since) ==
    MostRecentRows({h \in priceHistory : h.productId = pid}, HistoryScanLimit)

\* lt written for gt: the scan reads the rows older than the notification
RecentPriceHistory_Before(pid, since) ==
    MostRecentRows({h \in priceHistory : h.productId = pid /\ h.scrapedAt < since},
                   HistoryScanLimit)

\* lines 280-288: price history of the monitor newer than the notification
RecentPriceHistory(pid, since) ==
    MostRecentRows({h \in priceHistory : h.productId = pid /\ h.scrapedAt > since},
                   HistoryScanLimit)

\* lines 291-293
WasAboveTargetSinceNotification(rows, targetPrice) ==
    \E h \in rows : h.price > targetPrice

\* lines 266-274: the monitor's target_reached notifications; the code orders
\* them by createdAt descending, keeps five and reads only the first
RecentNotifications(pid) ==
    {n \in notifications : n.productId = pid /\ n.type = "target_reached"}

\* whether a target_reached notification of the monitor exists that no
\* observation above the target has followed (history variable of a check)
NotifiedThisStay(pid, targetPrice) ==
    \E n \in RecentNotifications(pid) :
       ~\E h \in priceHistory : /\ h.productId = pid
                                /\ h.scrapedAt > n.createdAt
                                /\ h.price > targetPrice

\* the restock branch without its !product.currentPrice test
StockNotice_AnyAvailable(currentPrice, isAvailable) ==
    IF ~isAvailable /\ TruthyString(currentPrice) THEN "out_of_stock"
    ELSE IF isAvailable THEN "restock"
    ELSE "none"

\* checkProductPrice, lines 158-172: which stock message the check writes
StockNotice(currentPrice, isAvailable) ==
    IF ~isAvailable /\ TruthyString(currentPrice) THEN "out_of_stock"
    ELSE IF isAvailable /\ ~TruthyString(currentPrice) THEN "restock"
    ELSE "none"

\* ---- checkProductPrice between its awaits ----
\* Each step of a check is the landing of the operation it awaits followed by
\* the code up to the next await; the operators below are that code.  pc names
\* the operation awaited:
\*   scrape  scrapePrice             record  insert into price_history
\*   update  update of products      drop    insert of the price_drop row
\*   target  select of notifications scan    select of price_history
\*   notify  insert of the target_reached row
\*   stock   insert of the back_in_stock row
\* lines 158-172, after checkTargetPriceNotification has returned: the stock
\* branches, and the end of the check when neither applies
AfterTarget(c) ==
    IF StockNotice(c.currentPrice, c.isAvailable) # "none"
    THEN [c EXCEPT !.pc = "stock"] ELSE [c EXCEPT !.pc = "done"]

\* line 155 and checkTargetPriceNotification, lines 250-274: the early returns,
\* then the query for the monitor's target_reached notifications
EnterTarget(c) ==
    IF PassesThresholdChecks(c.currentPrice, c.targetPrice, c.price)
    THEN [c EXCEPT !.pc = "target"]
    ELSE AfterTarget([c EXCEPT !.alreadyNotified = NotifiedThisStay(c.pid, c.targetPrice)])

\* lines 142-152, after the update of the monitor row
AfterUpdate(c) ==
    IF IsPriceDrop(c.currentPrice, c.price) THEN [c EXCEPT !.pc = "drop"]
    ELSE EnterTarget(c)

\* the operation awaited is an insert whose values() holds a new Date()
IssuesInsert(c) == c.pc \in {"record", "drop", "notify", "stock"}

\* the check goes on as c: when it issues an insert it reads the clock for the
\* row's stamp
Continue(i, c) ==
    /\ checks' = [checks EXCEPT ![i] =
          [c EXCEPT !.stamp = IF IssuesInsert(c) THEN now ELSE NULL]]
    /\ now' = IF IssuesInsert(c) THEN now + 1 ELSE now

\* checkProductPrice, lines 113-130: scrapePrice returns; without a price the
\* check returns, with one the insert of the observation is issued
ScrapeSettles(i, price, isAvailable) ==
    /\ checks[i].pc = "scrape"
    /\ HasBrowser(CheckScrape(i))
    /\ EndScrape(CheckScrape(i))
    /\ IF ExtractionFailed(price)
       THEN Continue(i, [checks[i] EXCEPT !.pc = "failed"])
       ELSE Continue(i, [checks[i] EXCEPT !.pc = "record", !.price = price,
                                          !.isAvailable = isAvailable])
    /\ UNCHANGED <<products, priceHistory, notifications, serial, dispatches, requests, housekeeping, jobs, calls>>

\* lines 113-130 with the scrape computed from the page the product URL
\* serves; a call whose browser launch was rejected has no rendered fetch
ScrapePageSettles(i, page) ==
    LET scrapeResult == scrapePrice(page)
    IN  /\ checks[i].pc = "scrape"
        /\ HasBrowser(CheckScrape(i))
        /\ browser.callers[CheckScrape(i)].pc = "threw" => page.renderedFetch = "throws"
        /\ EndScrape(CheckScrape(i))
        /\ IF ExtractionFailed(scrapeResult.price)
           THEN Continue(i, [checks[i] EXCEPT !.pc = "failed", !.page = page,
                                              !.scrape = scrapeResult])
           ELSE Continue(i, [checks[i] EXCEPT !.pc = "record",
                                              !.price = scrapeResult.price,
                                              !.isAvailable = scrapeResult.isAvailable,
                                              !.page = page, !.scrape = scrapeResult])
        /\ UNCHANGED <<products, priceHistory, notifications, serial, dispatches, requests, housekeeping, jobs, calls>>

\* lines 124-130: the insert of the observation lands and the update of the
\* monitor row is issued; when the monitor was deleted meanwhile the foreign key
\* rejects the row and the check ends in its catch block (lines 174-176)
RecordObservation(i) ==
    /\ checks[i].pc = "record"
    /\ IF checks[i].pid \in DOMAIN products
       THEN /\ InsertPriceHistory(checks[i].pid, checks[i].price, checks[i].isAvailable,
                                  checks[i].stamp)
            /\ Continue(i, [checks[i] EXCEPT !.pc = "update"])
       ELSE /\ Continue(i, [checks[i] EXCEPT !.pc = "threw"])
            /\ UNCHANGED <<priceHistory, serial>>
    /\ UNCHANGED <<products, notifications, dispatches, requests, housekeeping, jobs, calls, browser>>

\* lines 133-152: the update of the monitor row lands (it changes no row when
\* the monitor was deleted meanwhile); the check goes on to its notifications
UpdateCurrentPrice(i) ==
    /\ checks[i].pc = "update"
    /\ products' = [p \in DOMAIN products |->
          IF p = checks[i].pid
          THEN [products[p] EXCEPT !.currentPrice = checks[i].price, !.rev = @ + 1]
          ELSE products[p]]
    /\ Continue(i, AfterUpdate(checks[i]))
    /\ UNCHANGED <<priceHistory, notifications, serial, dispatches, requests, housekeeping, jobs, calls, browser>>

\* lines 145-155: createNotification for the price drop returns
PriceDropNotification(i, dbOk) ==
    /\ checks[i].pc = "drop"
    /\ createNotification(checks[i].pid, "price_drop", "price_drop", i,
                          checks[i].stamp, dbOk)
    /\ Continue(i, EnterTarget(checks[i]))
    /\ UNCHANGED <<products, priceHistory, dispatches, requests, housekeeping, jobs, calls, browser>>

\* checkTargetPriceNotification, lines 266-288: the monitor's target_reached
\* notifications arrive; without one the notification is created, with one the
\* history newer than the most recent is queried
TargetNotificationQuery(i) ==
    /\ checks[i].pc = "target"
    /\ LET c == checks[i]
           found == RecentNotifications(c.pid)
       IN  IF found = {}
           THEN Continue(i, [c EXCEPT !.pc = "notify"])
           ELSE Continue(i, [c EXCEPT !.pc = "scan",
                                      !.mostRecentAt = Max({n.createdAt : n \in found})])
    /\ UNCHANGED <<products, priceHistory, notifications, serial, dispatches, requests, housekeeping, jobs, calls, browser>>

\* lines 280-299: the history scan that decides on a repeated notification
TargetHistoryScan(i) ==
    /\ checks[i].pc = "scan"
    /\ LET c == checks[i]
           recentPriceHistory == RecentPriceHistory(c.pid, c.mostRecentAt)
       IN  IF WasAboveTargetSinceNotification(recentPriceHistory, c.targetPrice)
           THEN Continue(i, [c EXCEPT !.pc = "notify", !.mostRecentAt = NULL])
           ELSE Continue(i, AfterTarget([c EXCEPT !.mostRecentAt = NULL]))
    /\ UNCHANGED <<products, priceHistory, notifications, serial, dispatches, requests, housekeeping, jobs, calls, browser>>

\* lines 302-306: createNotification for the target returns
TargetReachedNotification(i, dbOk) ==
    /\ checks[i].pc = "notify"
    /\ createNotification(checks[i].pid, "target_reached", "target_reached", i,
                          checks[i].stamp, dbOk)
    /\ Continue(i, AfterTarget(checks[i]))
    /\ UNCHANGED <<products, priceHistory, dispatches, requests, housekeeping, jobs, calls, browser>>

\* lines 158-172: createNotification for the stock message returns; both stock
\* messages are stored with type back_in_stock
StockNotification(i, dbOk) ==
    /\ checks[i].pc = "stock"
    /\ createNotification(checks[i].pid, "back_in_stock",
                          StockNotice(checks[i].currentPrice, checks[i].isAvailable), i,
                          checks[i].stamp, dbOk)
    /\ Continue(i, [checks[i] EXCEPT !.pc = "done"])
    /\ UNCHANGED <<products, priceHistory, dispatches, requests, housekeeping, jobs, calls, browser>>


\* the names startAllJobs schedules, lines 18, 23, 28
JobNames == {"price-check", "cleanup", "notifications"}

NoRuns == [started |-> 0, completed |-> 0, errors |-> 0, rerun |-> FALSE]

\* scheduleJob, lines 58-61 and 75: a name already in the map is skipped
scheduleJob(registry, name) ==
    IF name \in registry THEN registry ELSE registry \cup {name}

\* startAllJobs: the three scheduleJob calls
startAllJobs ==
    /\ jobs' = [jobs EXCEPT !.registry =
          scheduleJob(scheduleJob(scheduleJob(@, "price-check"), "cleanup"),
                      "notifications")]
    /\ UNCHANGED <<products, priceHistory, notifications, serial, now, checks, dispatches,
                   requests, housekeeping, calls, browser>>

\* stopAllJobs, lines 41-46: every task is destroyed and the map is cleared; a
\* run that has started goes on
stopAllJobs ==
    /\ jobs' = [jobs EXCEPT !.registry = {}]
    /\ UNCHANGED <<products, priceHistory, notifications, serial, now, checks, dispatches,
                   requests, housekeeping, calls, browser>>

\* the runs of the task function of scheduleJob (lines 63-70) that await their
\* callback: the job, the ordinal of the run, the await the callback is at and
\* the call of the callback (the tick of a price check, the run of the
\* dispatcher, the run of the cleanup)
JobRun(name, n, pc, handle) == [name |-> name, n |-> n, pc |-> pc, handle |-> handle]
RunsOf(name, pc) == {run \in jobs.runs : run.name = name /\ run.pc = pc}
RunOf(name, handle) == {run \in RunsOf(name, "callback") : run.handle = handle}

\* cleanupOldPriceHistory, lines 205-210: the clock is read for ninetyDaysAgo
\* and the delete is issued; the run awaits it while other handlers take their
\* steps and the clock moves on
cleanupOldPriceHistory(n) == JobRun("cleanup", n, "delete", now)

\* the task function of scheduleJob, lines 63-66: the schedule of a live task
\* fires and callback() is called; the callback runs to its first await: the
\* select of checkAllProductPrices (85) or of sendPendingNotifications
\* (notifications.ts:74), or the delete of cleanupOldPriceHistory (210).
\* node-cron does not wait for an earlier run: runs overlap
JobTick(name) ==
    /\ name \in jobs.registry
    /\ jobs.stats[name].started < MaxRuns
    /\ Handlers < MaxInFlight
    /\ jobs' = [jobs EXCEPT
          !.stats[name] = [@ EXCEPT !.started = @ + 1,
                                    !.rerun = jobs.stats[name].rerun
                                                 \/ jobs.stats[name].errors > 0],
          !.runs = @ \cup {IF name = "cleanup"
                           THEN cleanupOldPriceHistory(jobs.stats[name].started + 1)
                           ELSE JobRun(name, jobs.stats[name].started + 1,
                                       "select", NULL)}]
    /\ UNCHANGED <<products, priceHistory, notifications, serial, now, checks, dispatches,
                   requests, housekeeping, calls, browser>>

\* a task function that takes a job that logged an error out of the map
JobSettles_Deregisters(run, failed) ==
    [jobs EXCEPT
       !.stats[run.name] = [@ EXCEPT !.completed = @ + 1,
                                     !.errors = IF failed THEN @ + 1 ELSE @],
       !.registry = IF failed THEN @ \ {run.name} ELSE @,
       !.runs = @ \ {run}]

\* the task function of scheduleJob, lines 66-67: await callback() returns and
\* the run is over; the three callbacks catch and log their own errors
\* (scheduler.ts:101-103, 215-217, notifications.ts:122-124), so callback()
\* does not reject; failed says whether the callback logged an error
JobSettles(run, failed) ==
    [jobs EXCEPT
       !.stats[run.name] = [@ EXCEPT !.completed = @ + 1,
                                     !.errors = IF failed THEN @ + 1 ELSE @],
       !.runs = @ \ {run}]

\* the run of a job whose callback returns in this step is over; any other
\* step leaves the jobs as they are
SettlesRunOf(name, handle, failed) ==
    jobs' = IF RunOf(name, handle) = {} THEN jobs
            ELSE JobSettles(CHOOSE run \in RunOf(name, handle) : TRUE, failed)

\* the deletes of cleanup runs that have not landed
CleanupsPending == Cardinality(RunsOf("cleanup", "delete"))

\* days go by, also while the delete of a cleanup run is awaited; the clock
\* counts days here
Elapse(days) ==
    /\ Handlers = CleanupsPending
    /\ serial.elapses < MaxElapses
    /\ now' = now + days
    /\ serial' = [serial EXCEPT !.elapses = @ + 1]
    /\ UNCHANGED <<products, priceHistory, notifications, checks, dispatches, requests,
                   housekeeping, jobs, calls, browser>>

\* the rows a retention run deletes when every row is compared with now
ExpiredPriceHistory_All(at) == priceHistory

\* cleanupOldPriceHistory, lines 207-212: lt(priceHistory.scrapedAt, ninetyDaysAgo)
ExpiredPriceHistory(at) == {h \in priceHistory : h.scrapedAt < at - RetentionDays}

\* an exception at one of the awaits of checkProductPrice kills the siblings too
CheckThrows_AbortsTick(i) ==
    /\ checks[i].pc \in {"scrape", "record", "update", "target", "scan"}
    /\ CheckScrape(i) \notin DOMAIN browser.callers
    /\ checks' = [j \in DOMAIN checks |->
          IF checks[j].call = checks[i].call /\ Running(checks[j])
          THEN [checks[j] EXCEPT !.pc = "threw"] ELSE checks[j]]
    /\ UNCHANGED <<products, priceHistory, notifications, serial, now, dispatches, requests, housekeeping, jobs, calls, browser>>

\* checkProductPrice, lines 110 and 174-176: an exception at one of its awaits
\* (parseURL inside scrapePrice, the priceHistory insert, the products update,
\* the two queries of the target branch) is caught and logged, and the promise
\* of the check resolves; createNotification catches its own (lines 187-199)
CheckThrows(i) ==
    /\ checks[i].pc \in {"scrape", "record", "update", "target", "scan"}
    /\ CheckScrape(i) \notin DOMAIN browser.callers
    /\ checks' = [checks EXCEPT ![i].pc = "threw"]
    /\ UNCHANGED <<products, priceHistory, notifications, serial, now, dispatches, requests, housekeeping, jobs, calls, browser>>

\* the checks started by one call of checkAllProductPrices
Members(k) == {i \in DOMAIN checks : checks[i].call = k}

\* checkAllProductPrices, lines 92-99: Promise.allSettled resolves when every
\* checkProductPrice promise has settled; then the tally is logged, and when
\* the price-check job made the call its run is over
PriceCheckCompleted(k) ==
    /\ Members(k) # {}
    /\ \A i \in Members(k) : ~Running(checks[i]) /\ ~checks[i].tallied
    /\ checks' = [i \in DOMAIN checks |->
          IF i \in Members(k) THEN [checks[i] EXCEPT !.tallied = TRUE] ELSE checks[i]]
    /\ SettlesRunOf("price-check", k, \E i \in Members(k) : checks[i].pc = "threw")
    /\ UNCHANGED <<products, priceHistory, notifications, serial, now, dispatches, requests, housekeeping, calls, browser>>

\* ---- services/notifications.ts ----
\* an update that sets sentAt and leaves sent as it is
MarkSent_SentAtOnly(id, sentAt) ==
    notifications' = {IF n.id = id THEN [n EXCEPT !.sentAt = sentAt] ELSE n :
                      n \in notifications}

\* lines 98-104 and 112-118: set({sent: true, sentAt: new Date()}) where id;
\* sentAt is the time at which the update was issued
MarkSent(id, sentAt) ==
    notifications' = {IF n.id = id THEN [n EXCEPT !.sent = TRUE, !.sentAt = sentAt] ELSE n :
                      n \in notifications}

\* what the for loop does after one notification: the next one, or the end
AfterOne(d) == IF d.todo = {} THEN "done" ELSE "next"

\* sendPendingNotifications, lines 74-78: the select returns up to ten unsent
\* rows, in no stated order
PendingIds == {n.id : n \in {m \in notifications : ~m.sent}}
PendingBatches ==
    LET size == IF Cardinality(PendingIds) < PendingBatchLimit
                THEN Cardinality(PendingIds) ELSE PendingBatchLimit
    IN  {batch \in SUBSET PendingIds : Cardinality(batch) = size}

\* lines 84-86: the loop over the selected rows starts
StartDispatch(batch) ==
    /\ dispatches' = dispatches @@ ((serial.dispatches + 1) :>
          [pc |-> "next", batch |-> batch, todo |-> batch,
           cur |-> NULL, at |-> NULL])
    /\ serial' = [serial EXCEPT !.dispatches = @ + 1]

\* sendPendingNotifications taken by itself, lines 74-86: the select lands
\* with rows to process; limit bounds the number of runs
SelectPending(limit) ==
    /\ PendingIds # {}
    /\ serial.dispatches < limit
    /\ Handlers + 1 <= MaxInFlight
    /\ \E batch \in PendingBatches : StartDispatch(batch)
    /\ UNCHANGED <<products, priceHistory, notifications, now, checks, requests, housekeeping, jobs, calls, browser>>

\* the run of sendPendingNotifications is over when its loop is (pc "done") or
\* when the outer catch has logged (pc "aborted"); the run of the notifications
\* job that called it is then over too
DispatchReaches(d, pc) ==
    IF pc \in {"done", "aborted"}
    THEN SettlesRunOf("notifications", d, pc = "aborted")
    ELSE UNCHANGED jobs

\* one run of the notifications job
sendPendingNotifications == SelectPending(MaxDispatches)

\* lines 86-104 and 108-118: the loop takes the next row and awaits
\* sendNotification, which resolves true (delivered) or false (pushover error,
\* or no credentials) or rejects when the client throws; then the update that
\* marks the row is issued, in the try block or in the catch block
SendNotification(d, id, outcome) ==
    /\ dispatches[d].pc = "next"
    /\ id \in dispatches[d].todo
    /\ dispatches' = [dispatches EXCEPT ![d] =
          [@ EXCEPT !.pc = IF outcome = "threw" THEN "catch" ELSE "mark",
                    !.todo = @ \ {id}, !.cur = id, !.at = now]]
    /\ notifications' = {IF n.id = id
                         THEN [n EXCEPT !.attempts = @ + 1, !.outcome = outcome] ELSE n :
                         n \in notifications}
    /\ UNCHANGED <<products, priceHistory, serial, now, checks, requests, housekeeping, jobs, calls, browser>>

\* lines 98-104: mark as sent regardless of success; when the update throws
\* the catch block issues its own
MarkAsSent(d, dbOk) ==
    /\ dispatches[d].pc = "mark"
    /\ IF dbOk
       THEN /\ MarkSent(dispatches[d].cur, dispatches[d].at)
            /\ dispatches' = [dispatches EXCEPT ![d].pc = AfterOne(dispatches[d]),
                                                ![d].at = NULL]
       ELSE /\ dispatches' = [dispatches EXCEPT ![d].pc = "catch", ![d].at = now]
            /\ UNCHANGED notifications
    /\ DispatchReaches(d, dispatches'[d].pc)
    /\ UNCHANGED <<products, priceHistory, serial, now, checks, requests, housekeeping, calls, browser>>

\* a catch block that only logs
MarkAsSentInCatch_LogOnly(d, dbOk) ==
    /\ dispatches[d].pc = "catch"
    /\ dispatches' = [dispatches EXCEPT ![d].pc = AfterOne(dispatches[d]), ![d].at = NULL]
    /\ DispatchReaches(d, dispatches'[d].pc)
    /\ UNCHANGED <<products, priceHistory, notifications, serial, now, checks, requests, housekeeping, calls, browser>>

\* lines 108-119: the catch block marks the row as sent; when this update
\* throws too, the outer catch (lines 122-124) ends the whole run
MarkAsSentInCatch(d, dbOk) ==
    /\ dispatches[d].pc = "catch"
    /\ IF dbOk
       THEN /\ MarkSent(dispatches[d].cur, dispatches[d].at)
            /\ dispatches' = [dispatches EXCEPT ![d].pc = AfterOne(dispatches[d]),
                                                ![d].at = NULL]
       ELSE /\ dispatches' = [dispatches EXCEPT ![d].pc = "aborted", ![d].at = NULL]
            /\ UNCHANGED notifications
    /\ DispatchReaches(d, dispatches'[d].pc)
    /\ UNCHANGED <<products, priceHistory, serial, now, checks, requests, housekeeping, calls, browser>>

\* the notifications created by createAndSendNotification, not by a check
Direct == {n \in notifications : n.by = 0}

\* createAndSendNotification, lines 130-143: the call issues the insert of the
\* row, stamped now
createAndSendNotification(pid, type, immediate) ==
    /\ pid \in DOMAIN products
    /\ Cardinality(RequestsOf("NOTIFY")) < MaxImmediate
    /\ requests' = Append(requests,
          [NoRequest EXCEPT !.kind = "NOTIFY", !.pc = "insert", !.pid = pid,
                            !.type = type, !.immediate = immediate, !.stamp = now])
    /\ now' = now + 1
    /\ UNCHANGED <<products, priceHistory, notifications, serial, checks, dispatches, housekeeping, jobs, calls, browser>>

\* lines 137-151: the insert lands; with immediate the message is handed to
\* sendNotification.  An insert that the foreign key rejects (the monitor was
\* deleted) ends the call in its catch block, which rethrows
InsertImmediate(r) ==
    /\ requests[r].kind = "NOTIFY"
    /\ requests[r].pc = "insert"
    /\ IF requests[r].pid \in DOMAIN products
       THEN /\ InsertNotification(requests[r].pid, requests[r].type, requests[r].type, 0,
                                  requests[r].stamp)
            /\ requests' = [requests EXCEPT ![r] =
                  IF requests[r].immediate
                  THEN [@ EXCEPT !.pc = "send", !.row = serial.notifications + 1,
                                 !.stamp = NULL]
                  ELSE Answered(@, 200)]
       ELSE /\ requests' = [requests EXCEPT ![r] = Answered(@, 500)]
            /\ UNCHANGED <<notifications, serial>>
    /\ UNCHANGED <<products, priceHistory, now, checks, dispatches, housekeeping, jobs, calls, browser>>

\* lines 149-158: sendNotification settles; when it throws the catch block
\* rethrows before the update, otherwise the update is issued
SendImmediate(r, outcome) ==
    /\ requests[r].kind = "NOTIFY"
    /\ requests[r].pc = "send"
    /\ notifications' = {IF n.id = requests[r].row
                         THEN [n EXCEPT !.attempts = @ + 1, !.outcome = outcome] ELSE n :
                         n \in notifications}
    /\ requests' = [requests EXCEPT ![r] =
          IF outcome = "threw" THEN Answered(@, 500)
          ELSE [@ EXCEPT !.pc = "mark", !.stamp = now]]
    /\ UNCHANGED <<products, priceHistory, serial, now, checks, dispatches, housekeeping, jobs, calls, browser>>

\* lines 152-158: the update lands; it runs
\* where(eq(notifications.productId, productId))
MarkImmediateSent(r) ==
    /\ requests[r].kind = "NOTIFY"
    /\ requests[r].pc = "mark"
    /\ notifications' = {IF n.productId = requests[r].pid
                         THEN [n EXCEPT !.sent = TRUE, !.sentAt = requests[r].stamp] ELSE n :
                         n \in notifications}
    /\ requests' = [requests EXCEPT ![r] = Answered(@, 200)]
    /\ UNCHANGED <<products, priceHistory, serial, now, checks, dispatches, housekeeping, jobs, calls, browser>>

\* cleanupOldNotifications, lines 252-253: thirtyDaysAgo, which the delete does
\* not use
thirtyDaysAgo(at) == at - NotificationRetentionDays

\* cleanupOldNotifications, lines 255-257: where(eq(notifications.sent, true))
OldNotifications(at) == {n \in notifications : n.sent}

\* cleanupOldNotifications, called by POST /api/notifications/cleanup; each run
\* is logged with what it deleted
cleanupOldNotifications ==
    /\ Len(housekeeping) < MaxCleanups
    /\ notifications' = notifications \ OldNotifications(now)
    /\ housekeeping' = Append(housekeeping,
          [job |-> "notifications", at |-> now, deleted |-> OldNotifications(now),
           inserted |-> serial.notifications])
    /\ UNCHANGED <<products, priceHistory, serial, now, checks, dispatches, requests,
                   jobs, calls, browser>>

\* DELETE /api/notifications/:id, routes/notifications.ts:90-108: the delete of
\* the row with that id lands, sent or not, and the request is answered 200;
\* the deletion is logged
DeleteNotification(id) ==
    /\ Len(housekeeping) < MaxCleanups
    /\ notifications' = {n \in notifications : n.id # id}
    /\ housekeeping' = Append(housekeeping,
          [job |-> "delete", at |-> now,
           deleted |-> {n \in notifications : n.id = id},
           inserted |-> serial.notifications])
    /\ UNCHANGED <<products, priceHistory, serial, now, checks, dispatches, requests,
                   jobs, calls, browser>>

\* ---- the runs of the scheduled jobs ----
\* the price-check job, scheduler.ts:18-20 and 85-103: the select of the active
\* monitors lands and the checks start; with no active monitor
\* Promise.allSettled([]) resolves and the run is over in the same turn; a
\* select that is rejected is caught and logged (101-103) and the run is over
PriceCheckSelects(run, dbOk) ==
    /\ run \in RunsOf("price-check", "select")
    /\ IF ~dbOk \/ ActiveProducts = {}
       THEN /\ jobs' = JobSettles(run, ~dbOk)
            /\ UNCHANGED <<checks, serial>>
       ELSE /\ serial.checks + Cardinality(ActiveProducts) <= MaxChecks
            /\ Handlers - 1 + Cardinality(ActiveProducts) <= MaxInFlight
            /\ StartChecks
            /\ jobs' = [jobs EXCEPT !.runs = (@ \ {run}) \cup
                  {JobRun(run.name, run.n, "callback", serial.checks + 1)}]
    /\ UNCHANGED <<products, priceHistory, notifications, now, dispatches, requests,
                   housekeeping, calls, browser>>

\* the notifications job, scheduler.ts:28-30 and notifications.ts:74-86: the
\* select of the unsent rows lands; with none the callback returns (line 81)
\* and the run is over, otherwise the loop starts; a select that is rejected
\* is caught and logged (122-124) and the run is over
PendingSelected(run, dbOk) ==
    /\ run \in RunsOf("notifications", "select")
    /\ IF ~dbOk \/ PendingIds = {}
       THEN /\ jobs' = JobSettles(run, ~dbOk)
            /\ UNCHANGED <<dispatches, serial>>
       ELSE /\ \E batch \in PendingBatches : StartDispatch(batch)
            /\ jobs' = [jobs EXCEPT !.runs = (@ \ {run}) \cup
                  {JobRun(run.name, run.n, "callback", serial.dispatches + 1)}]
    /\ UNCHANGED <<products, priceHistory, notifications, now, checks, requests,
                   housekeeping, calls, browser>>

\* the cleanup job, scheduler.ts:23-25 and 209-217: the delete lands, with the
\* horizon computed from the clock as read when the job fired, and the run is
\* over; a delete that fails is caught and logged and deletes nothing. Each
\* run that deleted is logged with the clock it read and what it deleted
ExpiredDeleted(run, dbOk) ==
    /\ run \in RunsOf("cleanup", "delete")
    /\ Len(housekeeping) < MaxCleanups
    /\ IF dbOk
       THEN /\ priceHistory' = priceHistory \ ExpiredPriceHistory(run.handle)
            /\ housekeeping' = Append(housekeeping,
                  [job |-> "cleanup", at |-> run.handle,
                   deleted |-> ExpiredPriceHistory(run.handle),
                   inserted |-> serial.priceHistory])
       ELSE UNCHANGED <<priceHistory, housekeeping>>
    /\ jobs' = JobSettles(run, ~dbOk)
    /\ UNCHANGED <<products, notifications, serial, now, checks, dispatches, requests,
                   calls, browser>>

\* what the callbacks of the jobs in progress do
JobSteps ==
    \E run \in jobs.runs, dbOk \in BOOLEAN :
       \/ PriceCheckSelects(run, dbOk)
       \/ PendingSelected(run, dbOk)
       \/ ExpiredDeleted(run, dbOk)

\* ---- specification ----
Init ==
    /\ products = << >>
    /\ priceHistory = {}
    /\ notifications = {}
    /\ serial = [priceHistory |-> 0, notifications |-> 0, checks |-> 0, dispatches |-> 0,
                 elapses |-> 0, products |-> 0]
    /\ now = 0
    /\ checks = << >>
    /\ dispatches = << >>
    /\ requests = << >>
    /\ housekeeping = << >>
    /\ calls = << >>
    /\ browser = [current |-> NULL, launches |-> 0, sinceClose |-> 0, closes |-> 0,
                  closing |-> 0,
                  callers |-> << >>]
    /\ jobs = [registry |-> {}, stats |-> [name \in JobNames |-> NoRuns], runs |-> {}]

\* the calls of scrapePrice that handlers await
Scrapers ==
    {CheckScrape(i) : i \in InFlight} \cup {PostScrape(r) : r \in Responding}
       \cup {CalledScrape(k) : k \in {c \in DOMAIN calls : calls[c].fn = "scrapePrice"}}

\* getBrowser in the scrapes of price checks and create requests
ScrapeSteps(outcomes) ==
    \E key \in Scrapers :
       \/ GetBrowser(key)
       \/ \E ok \in outcomes : LaunchSettles(key, ok)

\* create requests arrive, at most limit of them
CreateRequests(urls, targets, limit) ==
    \E url \in urls, t \in targets : PostProduct(url, t, limit)

\* the awaits of the create requests in progress
CreateSteps(prices) ==
    \E r \in Responding :
       \/ SelectExisting(r)
       \/ \E p \in prices : ScrapeInitialPrice(r, p)
       \/ InsertProduct(r)
       \/ InsertInitialObservation(r)

\* one monitor is created, by a request that arrives when no handler runs
CreateMonitor(targets, prices) ==
    \/ (Handlers = 0 /\ CreateRequests({ProductUrl(1)}, targets, MaxPosts))
    \/ CreateSteps(prices)

\* requests of the product routes arrive: POST, PUT and DELETE
ProductRequests ==
    \/ CreateRequests({ProductUrl(1)}, TargetPrices \cup {NULL}, MaxPosts)
    \/ \E pid \in 1..serial.products, t \in TargetPrices \cup {NULL},
          a \in {"true", "false", "absent"} : PutProduct(pid, t, a)
    \/ \E pid \in 1..serial.products : DeleteRequest(pid)

\* the awaits of the requests in progress
ProductSteps(prices) ==
    \/ CreateSteps(prices)
    \/ \E r \in Responding : UpdateProduct(r) \/ DeleteProduct(r)

CheckRequests(limit) ==
    \/ \E pid \in ProductIds : CheckPriceRequest(pid, limit)
    \/ checkAllProductPrices(limit)

\* checkProductPrice after the observation insert
CheckTail(i) ==
    \/ RecordObservation(i)
    \/ UpdateCurrentPrice(i)
    \/ PriceDropNotification(i, TRUE)
    \/ TargetNotificationQuery(i)
    \/ TargetHistoryScan(i)
    \/ TargetReachedNotification(i, TRUE)
    \/ StockNotification(i, TRUE)

\* the insert of createNotification fails and the check goes on
NotificationInsertFails(i) ==
    \/ PriceDropNotification(i, FALSE)
    \/ TargetReachedNotification(i, FALSE)
    \/ StockNotification(i, FALSE)

ChecksScraping(prices) ==
    \E i \in InFlight :
       \/ checkSingleProduct(i)
       \/ \E p \in prices, a \in BOOLEAN : ScrapeSettles(i, p, a)
       \/ CheckTail(i)

CheckSteps == ChecksScraping(Prices \cup {NULL})

DispatchLoop ==
    \E d \in DOMAIN dispatches :
       \/ \E id \in dispatches[d].todo, o \in DeliveryOutcomes : SendNotification(d, id, o)
       \/ \E ok \in BOOLEAN : MarkAsSent(d, ok)
       \/ \E ok \in BOOLEAN : MarkAsSentInCatch(d, ok)

DispatchSteps == sendPendingNotifications \/ DispatchLoop

\* requests and price checks, overlapping as the event loop allows
Next ==
    \/ (Handlers < MaxInFlight /\ ProductRequests)
    \/ ProductSteps({NULL, MaxPrice})
    \/ CheckRequests(MaxChecks)
    \/ ChecksScraping((Prices \ {0}) \cup {NULL})
    \/ ScrapeSteps({TRUE})

Spec == Init /\ [][Next]_vars

\* one handler at a time: a request is served only when no check is running
NextSeq ==
    \/ (Handlers = 0 /\ (ProductRequests \/ CheckRequests(MaxSeqChecks)))
    \/ ProductSteps(Prices \cup {NULL})
    \/ CheckSteps
    \/ ScrapeSteps({TRUE})

SpecSeq == Init /\ [][NextSeq]_vars

\* the notifications job running beside product creation and price checks
NextDispatch ==
    \/ CreateMonitor(TargetPrices \cup {NULL}, Prices \cup {NULL})
    \/ ScrapeSteps({TRUE})
    \/ CheckRequests(MaxDispatchChecks)
    \/ CheckSteps
    \/ DispatchSteps

SpecDispatch == Init /\ [][NextDispatch]_vars

\* the notifications job fired again while an earlier run is still in its loop
\* (cron.schedule starts the callback at every match of */5, scheduler.ts:63)
NextOverlap ==
    \/ CreateMonitor(TargetPrices \cup {NULL}, Prices \cup {NULL})
    \/ ScrapeSteps({TRUE})
    \/ CheckRequests(MaxDispatchChecks)
    \/ CheckSteps
    \/ SelectPending(MaxOverlapDispatches)
    \/ DispatchLoop

SpecOverlap == Init /\ [][NextOverlap]_vars


\* ---- properties ----
TargetReached == {n \in notifications : n.type = "target_reached"}
NotificationsBy(i) == {n \in notifications : n.by = i}
\* the check has passed its price_drop step / its target_reached steps
PastDrop(c) == c.pc \in {"target", "scan", "notify", "stock", "done"}
PastTarget(c) == c.pc \in {"stock", "done"}
\* the monitor of the check has not been deleted (a delete takes the monitor's
\* notifications with it)
Tracked(c) == c.pid \in DOMAIN products

\* C1: of two target_reached notifications of one monitor, the later one is
\* created only if an observation recorded between them had a price above the
\* target it was created for (checks running one after the other)
C1_NoRepeatWithoutRise ==
    \A n1 \in TargetReached, n2 \in TargetReached :
       (n1.productId = n2.productId /\ n1.id < n2.id) =>
          \E h \in priceHistory :
             /\ h.productId = n1.productId
             /\ h.scrapedAt > n1.createdAt
             /\ h.scrapedAt < n2.createdAt
             /\ h.price > checks[n2.by].targetPrice

\* a target_reached notification followed by two completed checks that saw
\* the price at or under the same target, and no second notification
C1_Witness ==
    \E n \in TargetReached :
       /\ Cardinality(TargetReached) = 1
       /\ \E i \in DOMAIN checks, j \in DOMAIN checks :
             /\ n.by < i /\ i < j
             /\ checks[i].pc = "done" /\ checks[j].pc = "done"
             /\ checks[i].targetPrice = checks[n.by].targetPrice
             /\ checks[j].targetPrice = checks[n.by].targetPrice
             /\ checks[i].price <= checks[i].targetPrice
             /\ checks[j].price <= checks[j].targetPrice

\* C2: with the target unchanged since an earlier target_reached notification,
\* a check that read a current price above the target and observes a price at
\* or under it creates a new target_reached notification (checks running one
\* after the other)
C2_RiseThenDipNotifiesAgain ==
    \A i \in DOMAIN checks :
       LET c == checks[i]
       IN  ( /\ PastTarget(c)
             /\ Tracked(c)
             /\ ~c.targetChanged
             /\ c.targetPrice # NULL
             /\ c.price <= c.targetPrice
             /\ c.currentPrice > c.targetPrice
             /\ \E n1 \in TargetReached :
                   n1.productId = c.pid /\ n1.by < i /\ ~n1.targetChanged )
           => \E n2 \in TargetReached : n2.by = i

\* two target_reached notifications for one unchanged target with an
\* observation above the target between them
C2_Witness ==
    \E n1 \in TargetReached, n2 \in TargetReached :
       /\ n1.productId = n2.productId /\ n1.by < n2.by
       /\ ~n1.targetChanged /\ ~n2.targetChanged
       /\ checks[n1.by].targetPrice = checks[n2.by].targetPrice
       /\ checks[n2.by].currentPrice > checks[n2.by].targetPrice
       /\ checks[n2.by].pc = "done"

\* C3: a target_reached notification comes from a check whose monitor had a
\* target, whose new price was <= target, and that read no prior current price
\* or a prior current price > target
C3_OnlyOnThresholdCrossing ==
    \A n \in TargetReached :
       LET c == checks[n.by]
       IN  /\ c.targetPrice # NULL
           /\ c.price <= c.targetPrice
           /\ (c.currentPrice = NULL \/ c.currentPrice > c.targetPrice)

\* C4: a check that suppresses target_reached because the new price and the
\* prior current price are both <= target finds a target_reached notification
\* of the monitor that no observation above the target has followed
C4_SuppressedMeansNotified ==
    \A i \in DOMAIN checks :
       LET c == checks[i]
       IN  ( /\ PastTarget(c)
             /\ c.targetPrice # NULL
             /\ c.price <= c.targetPrice
             /\ TruthyNumber(c.currentPrice)
             /\ c.currentPrice <= c.targetPrice )
           => c.alreadyNotified

\* C5: two checks that read the same revision of a monitor row and observed
\* the same price create at most one price_drop and at most one target_reached
\* notification between them
C5_OneNotificationPerCrossing ==
    \A n1 \in notifications, n2 \in notifications :
       ( /\ n1.productId = n2.productId
         /\ n1.type = n2.type
         /\ n1.type \in {"price_drop", "target_reached"}
         /\ checks[n1.by].rev = checks[n2.by].rev
         /\ checks[n1.by].price = checks[n2.by].price )
       => n1.id = n2.id

\* C6: an out-of-stock notice comes from a check that found the monitor's
\* latest observation available
C6_OutOfStockEdgeTriggered ==
    \A n \in notifications :
       n.message = "out_of_stock" => checks[n.by].priorAvailability = "yes"

\* C7: a completed check has written a restock notice exactly if it read no
\* current price and observed the product available; a check that read a
\* current price and observed the product available has written no stock notice
C7_RestockExactlyOnFirstAvailable ==
    \A i \in DOMAIN checks :
       LET c == checks[i]
           restock == \E n \in NotificationsBy(i) : n.message = "restock"
       IN  /\ restock => (c.currentPrice = NULL /\ c.isAvailable)
           /\ (c.pc = "done" /\ Tracked(c)) =>
                 /\ (c.currentPrice = NULL /\ c.isAvailable) => restock
                 /\ (c.currentPrice # NULL /\ c.isAvailable) =>
                       ~\E n \in NotificationsBy(i) : n.type = "back_in_stock"

C7_Witness ==
    \E i \in DOMAIN checks, j \in DOMAIN checks :
       /\ checks[i].pc = "done" /\ checks[j].pc = "done"
       /\ \E n \in NotificationsBy(i) : n.message = "restock"
       /\ checks[j].currentPrice # NULL /\ checks[j].isAvailable
       /\ ~\E n \in NotificationsBy(j) : n.type = "back_in_stock"

\* C8: a check that recorded a price has written a price_drop notification
\* exactly if it read a prior current price and the new price is lower
C8_PriceDropExactlyOnDecrease ==
    \A i \in DOMAIN checks :
       LET c == checks[i]
           drop == \E n \in NotificationsBy(i) : n.type = "price_drop"
       IN  /\ drop => (c.currentPrice # NULL /\ c.price < c.currentPrice)
           /\ (PastDrop(c) /\ Tracked(c)) =>
                 ((c.currentPrice # NULL /\ c.price < c.currentPrice) => drop)

C8_Witness ==
    \E i \in DOMAIN checks, j \in DOMAIN checks :
       /\ PastDrop(checks[i]) /\ PastDrop(checks[j])
       /\ \E n \in NotificationsBy(i) : n.type = "price_drop"
       /\ checks[j].currentPrice # NULL /\ checks[j].price = checks[j].currentPrice
       /\ ~\E n \in NotificationsBy(j) : n.type = "price_drop"

\* C9: one check writes at most one notification of each type, at most three
\* in all, and none when it recorded no price
C9_AtMostOnePerKind ==
    \A i \in DOMAIN checks :
       /\ \A t \in NotificationTypes :
             Cardinality({n \in NotificationsBy(i) : n.type = t}) <= 1
       /\ Cardinality(NotificationsBy(i)) <= 3
       /\ checks[i].price = NULL => NotificationsBy(i) = {}

\* a completed check that wrote all three, and a check whose extraction failed
C9_Witness ==
    \E i \in DOMAIN checks, j \in DOMAIN checks :
       /\ checks[i].pc = "done"
       /\ Cardinality(NotificationsBy(i)) = 3
       /\ checks[j].pc = "failed" /\ checks[j].price = NULL

\* ---- dispatch ----
Sent(id) == \E n \in notifications : n.id = id /\ n.sent /\ n.sentAt # NULL
Ended(r) == r.pc \in {"done", "aborted"}
\* the rows of its batch a run has finished with
Processed(r) ==
    r.batch \ (r.todo \cup (IF r.pc \in {"mark", "catch", "aborted"} THEN {r.cur} ELSE {}))

\* C10 as claimed: when a run of sendPendingNotifications has ended, every
\* notification of its batch has sent = true and a sentAt
C10_AllPickedEndSent ==
    \A d \in DOMAIN dispatches :
       Ended(dispatches[d]) => \A id \in dispatches[d].batch : Sent(id)

\* C10 as amended: every notification a run has finished with has sent = true
\* and a sentAt whatever sendNotification did, and a run that reaches the end
\* of its loop has finished with its whole batch; only a run ended by a
\* failing update in the catch block leaves rows of its batch unsent
C10_ProcessedEndSent ==
    \A d \in DOMAIN dispatches :
       LET r == dispatches[d]
       IN  /\ \A id \in Processed(r) : Sent(id)
           /\ r.pc = "done" => \A id \in r.batch : Sent(id)

\* a run that reached the end with a notification whose delivery threw and
\* one whose delivery returned false
C10_Witness ==
    \E d \in DOMAIN dispatches :
       /\ dispatches[d].pc = "done"
       /\ \E n1 \in notifications, n2 \in notifications :
             /\ n1.id \in dispatches[d].batch /\ n2.id \in dispatches[d].batch
             /\ n1.outcome = "threw" /\ n2.outcome \in {"failed", "unconfigured"}
             /\ n1.sent /\ n2.sent

\* one price-check tick over two monitors, with checks that may throw; the
\* monitors are created first, with or without a target and an initial price
NextTick ==
    \/ (Handlers = 0 /\ CreateRequests({ProductUrl(pid) : pid \in TickProductIds},
                                        {NULL, MaxPrice}, Cardinality(TickProductIds)))
    \/ CreateSteps({NULL, MaxPrice})
    \/ (DOMAIN products = TickProductIds /\ Handlers = 0
          /\ checkAllProductPrices(MaxChecks))
    \/ CheckSteps
    \/ ScrapeSteps(BOOLEAN)
    \/ \E i \in InFlight : CheckThrows(i)
    \/ \E i \in InFlight : NotificationInsertFails(i)
    \/ \E k \in DOMAIN checks : PriceCheckCompleted(k)

SpecTick == Init /\ [][NextTick]_vars

\* checks whose scrape result is computed from the page served
NextScrape ==
    \/ CreateMonitor({NULL, MaxPrice}, {NULL, MaxPrice})
    \/ ScrapeSteps(BOOLEAN)
    \/ CheckRequests(MaxScrapeChecks)
    \/ \E i \in InFlight :
          \/ checkSingleProduct(i)
          \/ (checks[i].pc = "scrape" /\ HasBrowser(CheckScrape(i))
                /\ \E page \in Pages : ScrapePageSettles(i, page))
          \/ CheckTail(i)

SpecScrape == Init /\ [][NextScrape]_vars

\* create requests, overlapping as the event loop allows
NextCreate ==
    \/ CreateRequests(PostUrls, {NULL, MaxPrice}, MaxCreates)
    \/ CreateSteps({NULL, MaxPrice})
    \/ ScrapeSteps({TRUE})

SpecCreate == Init /\ [][NextCreate]_vars

\* the server once its start-up has called startAllJobs: empty tables, the
\* three jobs scheduled
InitRetention ==
    /\ products = << >>
    /\ priceHistory = {}
    /\ notifications = {}
    /\ serial = [priceHistory |-> 0, notifications |-> 0, checks |-> 0, dispatches |-> 0,
                 elapses |-> 0, products |-> 0]
    /\ now = 0
    /\ checks = << >>
    /\ dispatches = << >>
    /\ requests = << >>
    /\ housekeeping = << >>
    /\ calls = << >>
    /\ browser = [current |-> NULL, launches |-> 0, sinceClose |-> 0, closes |-> 0,
                  closing |-> 0,
                  callers |-> << >>]
    /\ jobs = [registry |-> JobNames, stats |-> [name \in JobNames |-> NoRuns],
               runs |-> {}]

\* the daily cleanup job beside price checks: a run reads the clock when it
\* fires and its delete lands later, after steps of the checks, after days
\* have gone by or after the delete of another run
NextRetention ==
    \/ CreateMonitor({NULL, MaxPrice}, {NULL, MaxPrice})
    \/ ScrapeSteps({TRUE})
    \/ (Handlers = CleanupsPending /\ CheckRequests(MaxChecks))
    \/ ChecksScraping({1, MaxPrice})
    \/ \E days \in {1, RetentionDays} : Elapse(days)
    \/ JobTick("cleanup")
    \/ \E run \in jobs.runs, dbOk \in BOOLEAN : ExpiredDeleted(run, dbOk)

SpecRetention == InitRetention /\ [][NextRetention]_vars

\* a backlog of unsent notifications left by earlier price checks of a monitor
Backlog(size) ==
    {[id |-> k, productId |-> 1, type |-> "price_drop", message |-> "price_drop",
      sent |-> FALSE, sentAt |-> NULL, createdAt |-> k, attempts |-> 0,
      outcome |-> "none", by |-> 0, targetChanged |-> FALSE] : k \in 1..size}

\* a database the scheduler starts on: one active monitor without a target,
\* an observation of it that is inside or outside the retention horizon, and
\* an unsent notification
InitJobs ==
    /\ products = (1 :> [currentPrice |-> MaxPrice, targetPrice |-> NULL,
                         isActive |-> TRUE, rev |-> 0, url |-> ProductUrl(1)])
    /\ priceHistory = {[id |-> 1, productId |-> 1, price |-> MaxPrice,
                        isAvailable |-> TRUE, scrapedAt |-> 0]}
    /\ notifications = Backlog(1)
    /\ serial = [priceHistory |-> 1, notifications |-> 1, checks |-> 0,
                 dispatches |-> 0, elapses |-> 0, products |-> 1]
    /\ now \in {2, RetentionDays + 2}
    /\ checks = << >>
    /\ dispatches = << >>
    /\ requests = << >>
    /\ housekeeping = << >>
    /\ calls = << >>
    /\ browser = [current |-> NULL, launches |-> 0, sinceClose |-> 0, closes |-> 0,
                  closing |-> 0,
                  callers |-> << >>]
    /\ jobs = [registry |-> {}, stats |-> [name \in JobNames |-> NoRuns], runs |-> {}]

\* the runs of the jobs so far
JobsFired ==
    jobs.stats["price-check"].started + jobs.stats["cleanup"].started
       + jobs.stats["notifications"].started

\* the scheduler: the jobs are started, fire (also while earlier runs are in
\* progress) and are stopped, and the callbacks of the runs in progress (price
\* checks, the dispatcher, the cleanup) take their steps, with database and
\* scrape failures. The page of the monitor shows price 1 in stock, or no
\* price
NextJobs ==
    \/ startAllJobs
    \/ stopAllJobs
    \/ (JobsFired < MaxJobRuns /\ \E name \in JobNames : JobTick(name))
    \/ JobSteps
    \/ ScrapeSteps({TRUE})
    \/ \E i \in InFlight :
          \/ ScrapeSettles(i, 1, TRUE)
          \/ ScrapeSettles(i, NULL, FALSE)
          \/ CheckTail(i)
          \/ CheckThrows(i)
    \/ \E k \in DOMAIN checks : PriceCheckCompleted(k)
    \/ \E d \in DOMAIN dispatches :
          \/ \E id \in dispatches[d].todo, o \in {"delivered", "threw"} :
                SendNotification(d, id, o)
          \/ \E ok \in BOOLEAN : MarkAsSent(d, ok)
          \/ \E ok \in BOOLEAN : MarkAsSentInCatch(d, ok)

SpecJobs == InitJobs /\ [][NextJobs]_vars

\* calls of the URL parser and of the scraper on a URL
NextUrl ==
    \/ (calls = << >> /\ \E url \in CleanInputs : CleanCall(url))
    \/ Reclean
    \/ (calls = << >> /\ \E url \in CleanInputs : ParseCall(url))
    \/ (calls = << >> /\ \E parsed \in ParsedProducts : ScrapeCall(parsed))
    \/ ScrapeSteps(BOOLEAN)
    \/ \E k \in DOMAIN calls :
          (calls[k].fn = "scrapePrice" /\ HasBrowser(CalledScrape(k))
             /\ \E page \in Pages : ScrapeCallReturns(k, page))

SpecUrl == Init /\ [][NextUrl]_vars

\* the notifications job, the notification cleanup and the deletion of single
\* notifications beside product creation and price checks
NextCleanup ==
    \/ CreateMonitor({NULL, MaxPrice}, {NULL, MaxPrice})
    \/ ScrapeSteps({TRUE})
    \/ CheckRequests(MaxDispatchChecks)
    \/ CheckSteps
    \/ DispatchSteps
    \/ cleanupOldNotifications
    \/ \E n \in notifications : DeleteNotification(n.id)

SpecCleanup == Init /\ [][NextCleanup]_vars

InitBacklog ==
    /\ products = (1 :> [currentPrice |-> MaxPrice, targetPrice |-> NULL,
                         isActive |-> TRUE, rev |-> 0, url |-> ProductUrl(1)])
    /\ priceHistory = {}
    /\ \E size \in {1, MaxVariedBacklog, MaxBacklog} :
          /\ notifications = Backlog(size)
          /\ serial = [priceHistory |-> 0, notifications |-> size, checks |-> 0,
                       dispatches |-> 0, elapses |-> 0, products |-> 1]
          /\ now = size + 1
    /\ checks = << >>
    /\ dispatches = << >>
    /\ requests = << >>
    /\ housekeeping = << >>
    /\ calls = << >>
    /\ browser = [current |-> NULL, launches |-> 0, sinceClose |-> 0, closes |-> 0,
                  closing |-> 0,
                  callers |-> << >>]
    /\ jobs = [registry |-> {}, stats |-> [name \in JobNames |-> NoRuns], runs |-> {}]

\* the runs ended by a failing update in the catch block
AbortedRuns == {d \in DOMAIN dispatches : dispatches[d].pc = "aborted"}

\* the notifications job over a backlog, one run at a time, the rows of a batch
\* in the order of their ids. The update in the catch block fails at most
\* MaxDbErrors times; the delivery outcome varies for backlogs of up to
\* MaxVariedBacklog rows.
NextBacklog ==
    \/ (Dispatching = {} /\ SelectPending(MaxBacklogDispatches))
    \/ \E d \in DOMAIN dispatches :
          \/ (dispatches[d].pc = "next" /\
                \E id \in dispatches[d].todo,
                   o \in (IF Cardinality(notifications) <= MaxVariedBacklog
                          THEN DeliveryOutcomes ELSE {"delivered"}) :
                   /\ \A other \in dispatches[d].todo : id <= other
                   /\ SendNotification(d, id, o))
          \/ \E ok \in BOOLEAN : MarkAsSent(d, ok)
          \/ \E ok \in (IF Cardinality(AbortedRuns) < MaxDbErrors
                         THEN BOOLEAN ELSE {TRUE}) : MarkAsSentInCatch(d, ok)

\* the job fires every five minutes and every await of a run settles
SpecBacklog == InitBacklog /\ [][NextBacklog]_vars /\ WF_vars(NextBacklog)

\* createAndSendNotification and the notifications job beside product creation
\* and price checks
NextImmediate ==
    \/ CreateMonitor({NULL, MaxPrice}, {NULL, MaxPrice})
    \/ ScrapeSteps({TRUE})
    \/ CheckRequests(MaxDispatchChecks)
    \/ ChecksScraping({NULL, MaxPrice})
    \/ DispatchSteps
    \/ (Handlers < MaxInFlight /\
          \E pid \in ProductIds, type \in NotificationTypes, immediate \in BOOLEAN :
             createAndSendNotification(pid, type, immediate))
    \/ \E r \in Responding :
          \/ InsertImmediate(r)
          \/ \E o \in DeliveryOutcomes : SendImmediate(r, o)
          \/ MarkImmediateSent(r)

SpecImmediate == Init /\ [][NextImmediate]_vars

\* the rendered scrapes of the checks of one price-check tick, started together
\* by Promise.allSettled (scheduler.ts:92-94)
NextBrowser ==
    \/ \E key \in {DirectScrape(k) : k \in 1..MaxCallers} :
          \/ GetBrowser(key)
          \/ \E ok \in BOOLEAN : LaunchSettles(key, ok)
          \/ \E ok \in BOOLEAN : NewPage(key, ok)
          \/ \E ok \in BOOLEAN : ScrapeAndClosePage(key, ok)
    \/ closeBrowser
    \/ BrowserClosed

SpecBrowser == Init /\ [][NextBrowser]_vars

\* C11: no notification is handed to sendNotification more than once
C11_AtMostOneAttempt ==
    \A n \in notifications : n.attempts <= 1

\* the observation of a check that got past its insert is in the history
Recorded(i) ==
    \E h \in priceHistory :
       h.productId = checks[i].pid /\ h.price = checks[i].price
       /\ h.isAvailable = checks[i].isAvailable

\* the step ends check i by a failure (no price extracted, or an exception)
FailsNow(i) ==
    /\ i \in DOMAIN checks
    /\ Running(checks[i])
    /\ checks'[i].pc \in {"failed", "threw"}

\* C12: a step in which one check of a tick fails leaves every other check as
\* it was, a check that has completed has recorded its observation whatever
\* became of its siblings, and the tick is completed (tally logged) only when
\* every check it started has settled
C12_FailureIsolation ==
    /\ [](\A i \in DOMAIN checks :
            /\ checks[i].pc = "done" => Recorded(i)
            /\ checks[i].tallied => \A j \in Members(checks[i].call) : ~Running(checks[j]))
    /\ [][\A i \in DOMAIN checks :
            FailsNow(i) => \A j \in DOMAIN checks \ {i} : checks'[j] = checks[j]]_vars

\* a completed tick over two monitors: one check threw, the other one recorded
\* its observation and ran to the end
C12_Witness ==
    \E i \in DOMAIN checks, j \in DOMAIN checks :
       /\ checks[i].call = checks[j].call /\ checks[i].pid # checks[j].pid
       /\ checks[i].pc = "threw" /\ checks[j].pc = "done" /\ Recorded(j)
       /\ checks[i].tallied /\ checks[j].tallied

\* the checks that have scraped a page
Scraped == {i \in DOMAIN checks : checks[i].scrape.attempts # << >>}
\* neither the rendered nor the static attempt gives a price
BothFail(page) ==
    Attempt("rendered", page).price = NULL /\ Attempt("static", page).price = NULL

\* C13: when both attempts fail or find no price, scrapePrice returns price
\* null with the error text, and the step of the check changes no monitor row,
\* appends no observation and creates no notification, nor does the check
\* create one later
C13_FailedExtractionChangesNothing ==
    /\ [](\A i \in Scraped :
            BothFail(checks[i].page) =>
               /\ checks[i].scrape.price = NULL
               /\ checks[i].scrape.error = UnableToExtract
               /\ checks[i].pc = "failed"
               /\ NotificationsBy(i) = {})
    /\ [][\A i \in DOMAIN checks :
            (checks[i].pc = "scrape" /\ i \in Scraped' /\ BothFail(checks'[i].page))
            => UNCHANGED <<products, priceHistory, notifications>>]_vars

\* a check of an active monitor with a current price whose rendered page had no
\* price and whose static fetch failed
C13_Witness ==
    \E i \in Scraped :
       /\ checks[i].pc = "failed"
       /\ checks[i].page.renderedFetch = "ok" /\ checks[i].page.staticFetch = "throws"
       /\ products[checks[i].pid].currentPrice # NULL
       /\ products[checks[i].pid].isActive

\* C14: the rendered attempt is always the first; the static attempt is made
\* only after a rendered attempt that threw or had no price; the result is that
\* of the first attempt with a price, and nothing is tried after it
C14_RenderedThenStatic ==
    \A i \in Scraped :
       LET r == checks[i].scrape
           rendered == Attempt("rendered", checks[i].page)
           static == Attempt("static", checks[i].page)
       IN  /\ r.attempts \in {<<"rendered">>, <<"rendered", "static">>}
           /\ r.attempts = <<"rendered">> <=> rendered.price # NULL
           /\ rendered.price # NULL =>
                 /\ r.method = "rendered" /\ r.price = rendered.price
                 /\ r.isAvailable = rendered.isAvailable
           /\ (rendered.price = NULL /\ static.price # NULL) =>
                 /\ r.method = "static" /\ r.price = static.price
                 /\ r.isAvailable = static.isAvailable

\* a check whose rendered attempt found no price on a page it fetched and whose
\* static attempt then found one in the JSON-LD data
C14_Witness ==
    \E i \in Scraped :
       /\ checks[i].page.renderedFetch = "ok"
       /\ checks[i].scrape.attempts = <<"rendered", "static">>
       /\ checks[i].scrape.method = "static"
       /\ checks[i].scrape.strategy = "jsonld"
       /\ checks[i].pc = "done"

\* C15: every price the pipeline returns, every observation and every current
\* price of a monitor is greater than 0
C15_PricesArePositive ==
    /\ \A i \in Scraped : checks[i].scrape.price # NULL => checks[i].scrape.price > 0
    /\ \A h \in priceHistory : h.price > 0
    /\ \A pid \in DOMAIN products :
          products[pid].currentPrice # NULL => products[pid].currentPrice > 0

\* the observations of a monitor, and the most recent one by capture timestamp
Observations(pid) == {h \in priceHistory : h.productId = pid}
MostRecentObservation(pid) ==
    CHOOSE h \in Observations(pid) : \A g \in Observations(pid) : g.scrapedAt <= h.scrapedAt

\* C16: whenever no check of a monitor is in progress, the monitor's current
\* price is the price of its most recent observation
C16_CurrentPriceIsLatestObservation ==
    \A pid \in DOMAIN products :
       ( /\ Observations(pid) # {}
         /\ \A i \in DOMAIN checks : checks[i].pid = pid => ~Running(checks[i]) )
       => products[pid].currentPrice = MostRecentObservation(pid).price

\* C17: a step taken while a monitor is inactive appends no observation and
\* creates no notification for it
C17_InactiveMonitorNotWritten ==
    [][\A pid \in DOMAIN products \cap DOMAIN products' :
          ~products[pid].isActive =>
             /\ {h.id : h \in {g \in priceHistory' : g.productId = pid}}
                   = {h.id : h \in {g \in priceHistory : g.productId = pid}}
             /\ {n.id : n \in {m \in notifications' : m.productId = pid}}
                   = {n.id : n \in {m \in notifications : m.productId = pid}}]_vars

\* the ids of the rows written for a monitor
RowIds(rows, pid) == {r.id : r \in {q \in rows : q.productId = pid}}
\* no check of the monitor is in progress, and the request that created it
\* has been answered
Idle(pid) ==
    /\ \A i \in DOMAIN checks : checks[i].pid = pid => ~Running(checks[i])
    /\ \A r \in Responding : requests[r].kind = "POST" => requests[r].pid # pid

\* C17 as amended: a check is started only for a monitor that is active; an
\* inactive monitor with no check in progress, whose create request has been
\* answered, gets no observation and no notification until it is active
\* again; and the observations of a monitor are removed only with the monitor
C17_InactiveMonitorNotChecked ==
    [][/\ \A i \in DOMAIN checks' \ DOMAIN checks : products[checks'[i].pid].isActive
       /\ {h \in priceHistory : h.productId \in DOMAIN products'} \subseteq priceHistory'
       /\ \A pid \in DOMAIN products \cap DOMAIN products' :
             (~products[pid].isActive /\ Idle(pid)) =>
                /\ RowIds(priceHistory', pid) = RowIds(priceHistory, pid)
                /\ RowIds(notifications', pid) = RowIds(notifications, pid)
                /\ Idle(pid)']_vars

\* an inactive monitor with observations, no check in progress, and room for
\* a further check that is not started
C17_Witness ==
    \E pid \in DOMAIN products :
       /\ ~products[pid].isActive
       /\ Observations(pid) # {}
       /\ Idle(pid)
       /\ serial.checks < MaxChecks
       /\ \E i \in DOMAIN checks : checks[i].pid = pid /\ checks[i].pc = "done"

\* C18: no two monitors have the same cleaned URL; a create request that found
\* its cleaned URL tracked is answered 409 and has created nothing; of the
\* requests for one cleaned URL at most one has created a monitor
C18_UrlUnique ==
    /\ \A p \in DOMAIN products, q \in DOMAIN products :
          products[p].url = products[q].url => p = q
    /\ \A r \in DOMAIN requests :
          /\ requests[r].status = 409 =>
                /\ requests[r].pid = NULL
                /\ \E p \in DOMAIN products : products[p].url = requests[r].cleanUrl
          /\ requests[r].pid # NULL =>
                (requests[r].pc = "history" \/ requests[r].status = 201)
    /\ \A r \in DOMAIN requests, q \in DOMAIN requests :
          ( /\ requests[r].cleanUrl = requests[q].cleanUrl
            /\ requests[r].pid # NULL /\ requests[q].pid # NULL ) => r = q

\* two requests for one page (one URL with tracking parameters) that both
\* passed the select before either inserted, leaving one monitor, and a later
\* request for it answered 409
C18_Witness ==
    \E r \in DOMAIN requests, q \in DOMAIN requests, x \in DOMAIN requests :
       /\ requests[r].url # requests[q].url
       /\ requests[r].cleanUrl = requests[q].cleanUrl
       /\ requests[x].cleanUrl = requests[q].cleanUrl
       /\ requests[r].status = 201 /\ requests[q].status = 500
       /\ requests[x].status = 409
       /\ Cardinality(DOMAIN products) = 1

\* the page has a JSON-LD Product offer with a price above 0
ValidOffer(page) == page.offerPrice.json # "absent" /\ page.offerPrice.v > 0

\* C19: a scrape that got a price from a page with a valid JSON-LD offer
\* returns the offer's price, found by the JSON-LD strategy, whichever method
\* fetched the page
C19_JsonLdDecides ==
    \A i \in Scraped :
       (checks[i].scrape.method # "none" /\ ValidOffer(checks[i].page)) =>
          /\ checks[i].scrape.strategy = "jsonld"
          /\ checks[i].scrape.price = ParseFloat(checks[i].page.offerPrice)

\* C20: a scrape of a page whose offer availability has an in-stock or
\* out-of-stock token classifies by that token alone, whichever method
\* fetched the page
C20_StructuredAvailabilityDecides ==
    \A i \in Scraped :
       ( /\ checks[i].scrape.method # "none"
         /\ AvailabilityToken(checks[i].page.availability) # "none" ) =>
          checks[i].scrape.isAvailable
             = (AvailabilityToken(checks[i].page.availability) = "yes")

\* the retention runs logged so far
RetentionRuns == {k \in 1..Len(housekeeping) : housekeeping[k].job = "cleanup"}

\* two retention runs in a row with no observation recorded in between
NoNewObservations(k) ==
    /\ k \in RetentionRuns
    /\ k + 1 \in RetentionRuns
    /\ housekeeping[k + 1].inserted = housekeeping[k].inserted

\* C21 as stated: the second of two retention runs with no new observation in
\* between deletes nothing.
C21_SecondRunDeletesNothing ==
    \A k \in 1..Len(housekeeping) :
        NoNewObservations(k) => housekeeping[k + 1].deleted = {}

\* C21: the delete of a retention run takes exactly the observations older
\* than the 90-day horizon of the clock that run read when it fired, however
\* much later it lands, and leaves monitors and notifications alone; the
\* second of two runs with no new observation in between deletes only
\* observations that were inside the horizon of the first, and nothing when
\* both read the same clock.
C21_RetentionDeletesOnlyExpired ==
    /\ [](\A k \in RetentionRuns :
            /\ \A h \in housekeeping[k].deleted :
                  h.scrapedAt < housekeeping[k].at - RetentionDays
            /\ NoNewObservations(k) =>
                  /\ \A h \in housekeeping[k + 1].deleted :
                        h.scrapedAt >= housekeeping[k].at - RetentionDays
                  /\ (housekeeping[k + 1].at = housekeeping[k].at
                         => housekeeping[k + 1].deleted = {}))
    /\ [][housekeeping' # housekeeping =>
            /\ products' = products
            /\ notifications' = notifications
            /\ priceHistory \ priceHistory' = housekeeping'[Len(housekeeping')].deleted
            /\ \A h \in priceHistory' :
                  h.scrapedAt >= housekeeping'[Len(housekeeping')].at - RetentionDays
            /\ priceHistory' \subseteq priceHistory]_vars

\* two runs that read the same clock, the first of which deleted an
\* observation, while an observation inside the horizon of that clock is kept
\* that a later clock has put outside the horizon
C21_Witness ==
    /\ \E k \in 1..Len(housekeeping) :
          /\ NoNewObservations(k)
          /\ housekeeping[k + 1].at = housekeeping[k].at
          /\ housekeeping[k].deleted # {}
    /\ \E h \in priceHistory : h.scrapedAt < now - RetentionDays

\* C22: the step in which a run of a job fails (its select or delete is
\* rejected, one of its checks throws, its dispatch is ended by the catch)
\* leaves the registry as it is, with the failed job and every other job in
\* it, and takes no run of another job away; the registry shrinks only by
\* stopAllJobs, which empties it. A job in the registry is what the schedule
\* fires (JobTick), so the failed job runs again: the witness is such a run.
C22_FailedJobStaysRegistered ==
    [][/\ (\E name \in JobNames :
              jobs'.stats[name].errors > jobs.stats[name].errors)
             => /\ jobs'.registry = jobs.registry
                /\ \A run \in jobs.runs :
                      run \in jobs'.runs
                         \/ jobs'.stats[run.name].errors > jobs.stats[run.name].errors
       /\ ~(jobs.registry \subseteq jobs'.registry) => jobs'.registry = {}]_vars

\* a job failed, is still registered, fired again after the failure and that
\* run is over, while another job failed too
C22_Witness ==
    \E name \in jobs.registry, other \in jobs.registry :
        /\ name # other
        /\ jobs.stats[name].errors > 0
        /\ jobs.stats[name].rerun
        /\ jobs.stats[name].completed = jobs.stats[name].started
        /\ jobs.stats[other].errors > 0

\* the error text the scraper's specification expects for an unsupported store
StoreNotSupported == "Store not supported"

\* C23 as stated: scrapePrice on a parse result with isSupported = false
\* returns price null, not available, the error "Store not supported: <domain>",
\* and attempts no fetch.
C23_UnsupportedStoreNotFetched ==
    \A k \in DOMAIN calls :
        ( /\ calls[k].fn = "scrapePrice"
          /\ calls[k].pc = "returned"
          /\ ~calls[k].arg.isSupported ) =>
            /\ calls[k].result.price = NULL
            /\ ~calls[k].result.isAvailable
            /\ calls[k].result.error = StoreNotSupported
            /\ calls[k].result.attempts = << >>

\* C30 as stated: cleaning a cleaned URL returns it unchanged.
C30_CleanURLIdempotent ==
    \A k \in DOMAIN calls :
        calls[k].fn = "cleanURL" => cleanURL(calls[k].result) = calls[k].result

\* C24 as stated: cleanupOldNotifications deletes only notifications that are
\* sent and older than 30 days.
C24_CleanupDeletesOnlyOld ==
    \A k \in DOMAIN housekeeping :
        housekeeping[k].job = "notifications" =>
            \A n \in housekeeping[k].deleted :
                n.sent /\ n.createdAt < thirtyDaysAgo(housekeeping[k].at)

\* C25: with the notifications job firing again and again, every unsent
\* notification is eventually marked sent and stays so; a run takes at most 10
\* notifications; a failing update while marking a notification leaves the
\* rest of the backlog to a later run, which marks it.
C25_BacklogDrains ==
    /\ [](\A d \in DOMAIN dispatches :
            Cardinality(dispatches[d].batch) <= PendingBatchLimit)
    /\ [][\A n \in notifications :
            n.sent => \E m \in notifications' : m.id = n.id /\ m.sent]_vars
    /\ <>[](\A n \in notifications : n.sent)

\* a backlog of more than 10 rows drained in spite of a run that a failing
\* update ended: a run took 10 rows, a run was aborted, every row is sent
C25_Witness ==
    /\ Cardinality(notifications) > PendingBatchLimit
    /\ \A n \in notifications : n.sent
    /\ \E d \in DOMAIN dispatches : Cardinality(dispatches[d].batch) = PendingBatchLimit
    /\ AbortedRuns # {}

\* C26 as stated: after PUT /api/products/:id with targetPrice null the
\* monitor has no target price.
C26_NullClearsTarget ==
    [][\A r \in DOMAIN requests :
          ( /\ requests[r].targetPrice = NULL
            /\ requests[r].pid \in DOMAIN products
            /\ UpdateProduct(r) )
          => products'[requests[r].pid].targetPrice = NULL]_vars

\* C27 as stated: every check of a monitor with a target whose prior current
\* price was above the target and whose new price is at or below it creates a
\* target_reached notification.
C27_CrossingNeverSuppressed ==
    \A i \in DOMAIN checks :
       LET c == checks[i]
       IN  ( /\ c.pc \in {"stock", "done"}
             /\ Tracked(c)
             /\ c.targetPrice # NULL /\ c.currentPrice # NULL /\ c.price # NULL
             /\ c.currentPrice > c.targetPrice
             /\ c.price <= c.targetPrice )
           => \E n \in notifications : n.by = i /\ n.type = "target_reached"

\* C28 as stated: a notification has sent = true only after it was passed to
\* sendNotification, and sent never returns to false.
C28_SentOnlyAfterAttempt ==
    /\ [](\A n \in notifications : n.sent => n.attempts > 0)
    /\ [][\A n \in notifications :
            n.sent => \A m \in notifications' : m.id = n.id => m.sent]_vars

\* C29 as stated: at most one browser is launched between closeBrowser calls,
\* the callers that have a browser share the current instance, and every page
\* opened by a call that has ended is closed.
C29_SingleBrowser ==
    /\ browser.sinceClose <= 1
    /\ \A k \in DOMAIN browser.callers, j \in DOMAIN browser.callers :
          (browser.closes = 0 /\ browser.callers[k].browser # NULL
             /\ browser.callers[j].browser # NULL)
          => browser.callers[k].browser = browser.callers[j].browser
    /\ \A k \in DOMAIN browser.callers :
          browser.callers[k].pc \in {"returned", "threw"}
          => browser.callers[k].page \in {"none", "closed"}

====
